---- MODULE Spec2Model ----
(***************************************************************************)
(* A model of the lineup-attribution engine of nba-onoff-api:              *)
(*   - process_game_raw / get_starters / parse_clock  (per-team script)    *)
(*   - build_cache / update_cache / build_roster_from_events               *)
(*   - load_team_cache / calculate_player_stats / query_stats (main.py)    *)
(* Three specifications share the module: SpecGame walks one game's        *)
(* action stream, SpecCache runs build/update against the snapshot file    *)
(* with a concurrent reader, SpecQuery answers queries over snapshots.     *)
(***************************************************************************)
EXTENDS Integers, Sequences, FiniteSets, TLC

(***************************************************************************)
(* Bounds of the model and constants of the program.                       *)
(***************************************************************************)
MaxActions == 3          \* longest action stream walked by SpecGame
LineupSize == 5          \* the 5 of "len(current_lineup) < 5" and "[-5:]"
RegPeriodLen == 720      \* prev_clock on entering a period <= 4
OtPeriodLen == 300       \* prev_clock on entering a period > 4
LastRegPeriod == 4       \* "period <= 4"
MaxDelta == 120          \* "time_elapsed > 120"
NoClock == 0 - 1         \* parse_clock's None

TeamId == "own"          \* the team under processing
OppId == "opp"           \* the other team of the game

Players == 1 .. 7        \* player identifiers of the team's box score
NoPerson == 0            \* a missing / falsy personId

StatNames == {"FGM", "FGA", "FG3M", "FG3A", "FTM", "FTA", "PTS", "REB", "AST", "TOV"}

VARIABLES
    \* ---- process_game_raw (SpecGame)
    gpc,              \* position in process_game_raw
    current_lineup,   \* set of player ids on court
    remaining,        \* actions of the fetched stream not yet walked
    prev_period,
    prev_clock,
    events,           \* events appended so far
    last_action,      \* the action walked by the latest loop iteration
    last_delta,       \* time_elapsed of the latest loop iteration
    last_before,      \* current_lineup before the latest loop iteration
    ret,              \* return value: "running", "None" or "events"
    \* ---- build_cache / update_cache and the snapshot file (SpecCache)
    file,             \* the snapshot file <team>_<season>_combo.json
    schedule,         \* number of games the schedule service knows
    wpc,              \* position of the build / update run
    op,               \* "build" or "update": the run in progress or last run
    game_ids,         \* game_ids (build) / new_game_ids (update)
    idx,              \* loop index into game_ids, from 1
    acc,              \* all_events (build) / new_events (update)
    games_ok,
    cache,            \* update_cache's loaded snapshot
    attempts,         \* per game of the run: [gid, ok, n] as process_game_raw returned
    fetch,            \* what get_team_games gave this run
    all_game_ids,     \* the list get_team_games returned to this run
    file_at_start,    \* the file as it was when the run started
    outcome,          \* how the last run ended
    prev_run,         \* op, schedule list and outcome of the run before
    \* ---- the serving layer's load_team_cache
    team_cache,       \* _team_cache[cache_key]
    served,           \* what the latest load_team_cache call did
    \* ---- query_stats (SpecQuery)
    q_on,             \* players_on: a list of names
    q_off,            \* players_off: a list of names
    on_ids,
    off_ids,
    agg,              \* player_time, player_stats, player_team_stats of the main call
    players,          \* the 'players' list of the answer
    comparison,       \* the 'comparison' list of the answer
    q_ret,            \* "none" before any query, then "None" or "result"
    \* ---- calculate_usg called on its own (SpecUsg)
    u_args,           \* <<fga, fta, tov, team_fga, team_fta, team_tov>>
    u_ret,            \* what main.py's calculate_usg returned, in tenths
    u_script,         \* what the team script's calculate_usg returned, in tenths
    \* ---- the comparison of query_stats on two result dicts (SpecCompare)
    c_main,           \* main_stats, as the list of its values
    c_base,           \* baseline_stats, as the list of its values
    c_off,            \* off_ids
    c_out,            \* the comparison list
    \* ---- the Phoenix script's build_cache / update_cache (SpecPhoenix)
    px_file,          \* its snapshot file
    px_roster,        \* what get_roster returned to the latest run
    px_ret,           \* how the latest run ended
    \* ---- the one-period game behind the snapshot (SpecScenario)
    scenario,         \* who went out, the clocks of the substitution and the three
    \* ---- the time credited per period (SpecClock)
    credited          \* period -> sum of the elapsed times of its actions

gameVars == <<gpc, current_lineup, remaining, prev_period, prev_clock, events,
              last_action, last_delta, last_before, ret>>

cacheVars == <<file, schedule, wpc, op, game_ids, idx, acc, games_ok, cache,
               attempts, fetch, all_game_ids, file_at_start, outcome, prev_run,
               team_cache, served>>

queryVars == <<q_on, q_off, on_ids, off_ids, agg, players, comparison, q_ret>>

usgVars == <<u_args, u_ret, u_script>>

compareVars == <<c_main, c_base, c_off, c_out>>

phoenixVars == <<px_file, px_roster, px_ret>>

scenarioVars == <<scenario>>

clockVars == <<credited>>

vars == <<gameVars, cacheVars, queryVars, usgVars, compareVars, phoenixVars, scenarioVars, clockVars>>

notGameVars == <<cacheVars, queryVars, usgVars, compareVars, phoenixVars, scenarioVars, clockVars>>

notCacheVars == <<gameVars, queryVars, usgVars, compareVars, phoenixVars, scenarioVars, clockVars>>

notQueryVars == <<gameVars, cacheVars, usgVars, compareVars, phoenixVars, scenarioVars, clockVars>>

notUsgVars == <<gameVars, cacheVars, queryVars, compareVars, phoenixVars, scenarioVars, clockVars>>

notCompareVars == <<gameVars, cacheVars, queryVars, usgVars, phoenixVars, scenarioVars, clockVars>>

\* the Phoenix runs read the schedule, which is among the cache variables
\* what a loop iteration that keeps the account of credited time leaves alone
notGameClockVars == <<cacheVars, queryVars, usgVars, compareVars, phoenixVars, scenarioVars>>

notPhoenixVars == <<gameVars, queryVars, usgVars, compareVars, scenarioVars, clockVars,
                    file, wpc, op, game_ids, idx, acc, games_ok, cache, attempts,
                    fetch, all_game_ids, file_at_start, outcome, prev_run,
                    team_cache, served>>

(***************************************************************************)
(* Small helpers.                                                          *)
(***************************************************************************)
Stats(rec) == [s \in StatNames |-> IF s \in DOMAIN rec THEN rec[s] ELSE 0]

NoStats == [s \in StatNames |-> 0]

RECURSIVE SetToSeq(_)
\* a sequence listing a set of integers in ascending order
SetToSeq(S) ==
    IF S = {} THEN <<>>
    ELSE LET m == CHOOSE x \in S : \A y \in S : x <= y
         IN <<m>> \o SetToSeq(S \ {m})

(***************************************************************************)
(* get_starters: the box score's players list -> starting lineup.          *)
(* A box score is [found, players]; found = FALSE stands for a failed      *)
(* fetch, a missing team entry or an exception (all return set()).         *)
(* A players entry is [personId, starter, position, minutes].              *)
(***************************************************************************)
Flagged(p) == p.starter \/ p.position

\* position of entry i in sorted(players_list, key=get_mins, reverse=True)
MinutesRank(pl, i) ==
    Cardinality({j \in 1 .. Len(pl) :
        \/ pl[j].minutes > pl[i].minutes
        \/ pl[j].minutes = pl[i].minutes /\ j < i})

get_starters(box) ==
    IF ~box.found THEN {}
    ELSE LET pl == box.players
             starters == {pl[i].personId : i \in {j \in 1 .. Len(pl) : Flagged(pl[j])}}
         IN IF Cardinality(starters) >= LineupSize THEN starters
            ELSE {pl[i].personId : i \in {j \in 1 .. Len(pl) : MinutesRank(pl, j) < LineupSize}}

\* the box scores SpecGame draws from: the first n players of the team, the
\* first k of them flagged as starters, the sixth with or without a
\* position, and three minutes patterns
BoxSizes == {4, 6, 7}
MinutePatterns == {"zero", "desc", "asc"}

BoxEntry(k, n, S, P, mp) ==
    [personId |-> k, starter |-> k \in S, position |-> k \in P,
     minutes |-> CASE mp = "zero" -> 0 [] mp = "desc" -> n - k [] OTHER -> k]

BoxScores ==
    {[found |-> FALSE, players |-> <<>>]} \cup
    {[found |-> TRUE, players |-> [k \in 1 .. t[1] |-> BoxEntry(k, t[1], 1 .. t[2], t[3], t[4])]] :
        t \in {u \in BoxSizes \X (0 .. 7) \X {{}, {6}} \X MinutePatterns : u[2] <= u[1]}}

(***************************************************************************)
(* parse_clock: raw clock strings.  A raw clock is [fmt, m, ds]: fmt "PT"  *)
(* is PT<m>M<s>S, "colon" is <m>:<s>, anything else has no clock; ds is    *)
(* the seconds field in tenths of a second.                                *)
(***************************************************************************)
parse_clock(raw) ==
    IF raw.fmt \in {"PT", "colon"} THEN raw.m * 60 + (raw.ds \div 10)
    ELSE NoClock

PeriodLen(period) == IF period <= LastRegPeriod THEN RegPeriodLen ELSE OtPeriodLen

(***************************************************************************)
(* One iteration of process_game_raw's loop over the actions.              *)
(* An action is [period, clock, kind, sub, team, person, assist, made,     *)
(* missed, three]: kind abstracts the substrings tested in actionType,     *)
(* made / missed / three the tests on description and shotResult.          *)
(***************************************************************************)
ShotKinds == {"2pt", "3pt"}

\* lines 217-226: period change, delta, clamp to 0 outside [0, 120]
ClockAfterPeriod(st, a) ==
    IF a.period # st.prev_period THEN PeriodLen(a.period) ELSE st.prev_clock

\* the delta without its replacement by 0 outside [0, MaxDelta]
TimeElapsedUncapped(st, a) ==
    LET clock == parse_clock(a.clock)
    IN IF clock = NoClock THEN 0 ELSE ClockAfterPeriod(st, a) - clock

TimeElapsed(st, a) ==
    LET clock == parse_clock(a.clock)
        d == ClockAfterPeriod(st, a) - clock
    IN IF clock = NoClock THEN 0
       ELSE IF d < 0 \/ d > MaxDelta THEN 0 ELSE d

NextPrevClock(st, a) ==
    LET clock == parse_clock(a.clock)
    IN IF clock = NoClock THEN ClockAfterPeriod(st, a) ELSE clock

\* lines 228-238: one time-only event per player of the lineup before the action
TimeEvents(lineup, d) ==
    IF d > 0
    THEN LET order == SetToSeq(lineup)
         IN [i \in 1 .. Len(order) |->
                [player_id |-> order[i], lineup |-> lineup, stats |-> NoStats,
                 time |-> d, is_team_stat |-> FALSE]]
    ELSE <<>>

\* line 251: set(list(current_lineup)[-5:]); the iteration order of a set is
\* not the insertion order, so any 5 of the members may be the ones kept
ClampChoices(lineup) ==
    IF Cardinality(lineup) > LineupSize
    THEN {S \in SUBSET lineup : Cardinality(S) = LineupSize}
    ELSE {lineup}

\* the substitution branch without its test of the team
SubstitutionLineupsAnyTeam(lineup, a) ==
    IF a.person # NoPerson
    THEN LET applied == CASE a.sub = "in" -> lineup \cup {a.person}
                          [] a.sub = "out" -> lineup \ {a.person}
                          [] OTHER -> lineup
         IN ClampChoices(applied)
    ELSE {lineup}

\* lines 240-252: the lineups a substitution action may leave
SubstitutionLineups(lineup, a) ==
    IF a.team = TeamId /\ a.person # NoPerson
    THEN LET applied == CASE a.sub = "in" -> lineup \cup {a.person}
                          [] a.sub = "out" -> lineup \ {a.person}
                          [] OTHER -> lineup
         IN ClampChoices(applied)
    ELSE {lineup}

StatEvent(pid, lineup, rec, team) ==
    [player_id |-> pid, lineup |-> lineup, stats |-> Stats(rec), time |-> 0,
     is_team_stat |-> team]

\* lines 263-318: the event of the acting player, if any
ActorEvents(lineup, a) ==
    LET on == a.person # NoPerson /\ a.person \in lineup
    IN IF on /\ a.kind \in ShotKinds
       THEN IF a.made
            THEN IF a.three
                 THEN <<StatEvent(a.person, lineup,
                          [FGM |-> 1, FGA |-> 1, FG3M |-> 1, FG3A |-> 1, PTS |-> 3], TRUE)>>
                 ELSE <<StatEvent(a.person, lineup,
                          [FGM |-> 1, FGA |-> 1, PTS |-> 2], TRUE)>>
            ELSE IF a.missed
                 THEN IF a.three
                      THEN <<StatEvent(a.person, lineup, [FGA |-> 1, FG3A |-> 1], TRUE)>>
                      ELSE <<StatEvent(a.person, lineup, [FGA |-> 1], TRUE)>>
                 ELSE <<>>
       ELSE IF on /\ a.kind = "freethrow"
       THEN IF a.made
            THEN <<StatEvent(a.person, lineup, [FTA |-> 1, FTM |-> 1, PTS |-> 1], TRUE)>>
            ELSE <<StatEvent(a.person, lineup, [FTA |-> 1], TRUE)>>
       ELSE IF on /\ a.kind = "rebound"
       THEN <<StatEvent(a.person, lineup, [REB |-> 1], FALSE)>>
       ELSE IF on /\ a.kind = "turnover"
       THEN <<StatEvent(a.person, lineup, [TOV |-> 1], TRUE)>>
       ELSE <<>>

\* the assist branch without its test of the lineup
AssistEventsAnyPlayer(lineup, a) ==
    IF a.assist # NoPerson /\ a.made
    THEN <<StatEvent(a.assist, lineup, [AST |-> 1], FALSE)>>
    ELSE <<>>

\* lines 320-327
AssistEvents(lineup, a) ==
    IF a.assist # NoPerson /\ a.assist \in lineup /\ a.made
    THEN <<StatEvent(a.assist, lineup, [AST |-> 1], FALSE)>>
    ELSE <<>>

\* the loop body: the set of states one iteration may leave (a set because
\* of ClampChoices); a state is [lineup, prev_period, prev_clock, events]
ActionResults(st, a) ==
    LET d == TimeElapsed(st, a)
        timed == st.events \o TimeEvents(st.lineup, d)
        base == [lineup |-> st.lineup, prev_period |-> a.period,
                 prev_clock |-> NextPrevClock(st, a), events |-> timed]
    IN IF a.kind = "substitution"
       THEN {[base EXCEPT !.lineup = L] : L \in SubstitutionLineups(st.lineup, a)}
       ELSE {[base EXCEPT !.events = timed \o ActorEvents(st.lineup, a)
                                           \o AssistEvents(st.lineup, a)]}

\* lines 206-207
LoopStart(lineup) ==
    [lineup |-> lineup, prev_period |-> 0, prev_clock |-> RegPeriodLen, events |-> <<>>]

(***************************************************************************)
(* The action streams SpecGame draws from.                                 *)
(***************************************************************************)
Act(kind, sub, team, person, assist, made, missed, three) ==
    [kind |-> kind, sub |-> sub, team |-> team, person |-> person,
     assist |-> assist, made |-> made, missed |-> missed, three |-> three]

SubBodies ==
    {Act("substitution", "in", TeamId, 6, NoPerson, FALSE, FALSE, FALSE),
     Act("substitution", "out", TeamId, 1, NoPerson, FALSE, FALSE, FALSE),
     Act("substitution", "in", TeamId, 7, NoPerson, FALSE, FALSE, FALSE),
     Act("substitution", "in", OppId, 7, NoPerson, FALSE, FALSE, FALSE),
     Act("substitution", "out", TeamId, NoPerson, NoPerson, FALSE, FALSE, FALSE)}

StatBodies ==
    {Act("3pt", "", TeamId, 6, 1, TRUE, FALSE, TRUE),
     Act("2pt", "", TeamId, 1, NoPerson, FALSE, TRUE, FALSE),
     Act("freethrow", "", TeamId, 6, NoPerson, TRUE, FALSE, FALSE),
     Act("rebound", "", TeamId, 1, NoPerson, FALSE, FALSE, FALSE),
     Act("turnover", "", OppId, 6, NoPerson, FALSE, FALSE, FALSE)}

ActionBodies == SubBodies \cup StatBodies

\* <<period, raw clock>>: 600 s in period 1, 180 s in period 1, 180 s in the
\* first overtime, and an unparsable clock
Timings ==
    {<<1, [fmt |-> "PT", m |-> 10, ds |-> 0]>>,
     <<1, [fmt |-> "colon", m |-> 3, ds |-> 5]>>,
     <<5, [fmt |-> "PT", m |-> 3, ds |-> 0]>>,
     <<1, [fmt |-> "bad", m |-> 0, ds |-> 0]>>}

Timed(body, period, clock) ==
    [period |-> period, clock |-> clock, kind |-> body.kind, sub |-> body.sub,
     team |-> body.team, person |-> body.person, assist |-> body.assist,
     made |-> body.made, missed |-> body.missed, three |-> body.three]

GameActions == {Timed(b, t[1], t[2]) : b \in ActionBodies, t \in Timings}

NoAction == Timed(Act("none", "", TeamId, NoPerson, NoPerson, FALSE, FALSE, FALSE),
                  0, [fmt |-> "bad", m |-> 0, ds |-> 0])

(***************************************************************************)
(* process_game_raw, one step per call it makes and per loop iteration.    *)
(***************************************************************************)
\* lines 196-198
ResolveStarters ==
    /\ gpc = "starters"
    /\ \E box \in BoxScores :
          /\ current_lineup' = get_starters(box)
          /\ IF Cardinality(get_starters(box)) < LineupSize
             THEN gpc' = "done" /\ ret' = "None"
             ELSE gpc' = "pbp" /\ ret' = ret
    /\ UNCHANGED <<remaining, prev_period, prev_clock, events, last_action,
                   last_delta, last_before>>
    /\ UNCHANGED notGameVars

\* lines 202-207; n is the length of the fetched stream, 0 when the fetch
\* failed or the stream is empty
FetchActions ==
    /\ gpc = "pbp"
    /\ \E n \in 0 .. MaxActions :
          /\ remaining' = n
          /\ IF n = 0
             THEN gpc' = "done" /\ ret' = "None"
             ELSE gpc' = "loop" /\ ret' = ret
    /\ prev_period' = 0
    /\ prev_clock' = RegPeriodLen
    /\ UNCHANGED <<current_lineup, events, last_action, last_delta, last_before>>
    /\ UNCHANGED notGameVars

\* lines 209-329: one loop iteration; after the last one the events are
\* returned
ProcessAction ==
    /\ gpc = "loop"
    /\ remaining > 0
    /\ \E a \in GameActions :
          LET st == [lineup |-> current_lineup, prev_period |-> prev_period,
                     prev_clock |-> prev_clock, events |-> events]
          IN \E r \in ActionResults(st, a) :
                /\ current_lineup' = r.lineup
                /\ prev_period' = r.prev_period
                /\ prev_clock' = r.prev_clock
                /\ events' = r.events
                /\ last_action' = a
                /\ last_delta' = TimeElapsed(st, a)
                /\ last_before' = current_lineup
    /\ remaining' = remaining - 1
    /\ IF remaining = 1
       THEN gpc' = "done" /\ ret' = "events"
       ELSE gpc' = gpc /\ ret' = ret
    /\ UNCHANGED notGameVars

GameNext == ResolveStarters \/ FetchActions \/ ProcessAction

(***************************************************************************)
(* The loop of process_game_raw over streams whose clocks go back and      *)
(* forth, with the account of the time credited in each period.            *)
(***************************************************************************)
MaxClockActions == 5

ClockPeriods == {1, 5}

NoCredit == [p \in ClockPeriods |-> 0]

\* period 1 at 12:00 and 10:00, overtime at 5:00 and 3:00
ClockActions ==
    {Timed(Act("rebound", "", TeamId, 1, NoPerson, FALSE, FALSE, FALSE), t[1], t[2]) :
        t \in {<<1, [fmt |-> "PT", m |-> 12, ds |-> 0]>>,
               <<1, [fmt |-> "PT", m |-> 10, ds |-> 0]>>,
               <<5, [fmt |-> "PT", m |-> 5, ds |-> 0]>>,
               <<5, [fmt |-> "PT", m |-> 3, ds |-> 0]>>}}

\* lines 209-329: one loop iteration, the elapsed time added to the
\* account of the action's period
TickAction ==
    /\ gpc = "loop"
    /\ remaining > 0
    /\ \E a \in ClockActions :
          LET st == [lineup |-> current_lineup, prev_period |-> prev_period,
                     prev_clock |-> prev_clock, events |-> events]
          IN \E r \in ActionResults(st, a) :
                /\ current_lineup' = r.lineup
                /\ prev_period' = r.prev_period
                /\ prev_clock' = r.prev_clock
                /\ events' = r.events
                /\ last_action' = a
                /\ last_delta' = TimeElapsed(st, a)
                /\ last_before' = current_lineup
                /\ credited' = [credited EXCEPT ![a.period] = @ + TimeElapsed(st, a)]
    /\ remaining' = remaining - 1
    /\ IF remaining = 1
       THEN gpc' = "done" /\ ret' = "events"
       ELSE gpc' = gpc /\ ret' = ret
    /\ UNCHANGED notGameClockVars

ClockNext == TickAction

(***************************************************************************)
(* process_game_raw as a function of the documents fetched for a game:     *)
(* the set of values it may return.  A feed is [box, actions]; a failed    *)
(* get_pbp is the empty action list.  None is [ok |-> FALSE].              *)
(***************************************************************************)
RECURSIVE RunActions(_, _)
RunActions(st, acts) ==
    IF acts = <<>> THEN {st}
    ELSE UNION {RunActions(r, Tail(acts)) : r \in ActionResults(st, Head(acts))}

NoneResult == [ok |-> FALSE, events |-> <<>>]

process_game_raw(feed) ==
    LET L == get_starters(feed.box)
    IN IF Cardinality(L) < LineupSize THEN {NoneResult}
       ELSE IF feed.actions = <<>> THEN {NoneResult}
       ELSE {[ok |-> TRUE, events |-> r.events] :
                r \in RunActions(LoopStart(L), feed.actions)}

(***************************************************************************)
(* build_roster_from_events and the snapshot document.                     *)
(***************************************************************************)
\* get_player_name: the static name table; a name is a sequence of letters
PlayerName(pid) ==
    CASE pid = 1 -> <<"A", "b">>
      [] pid = 2 -> <<"A", "c">>
      [] pid = 3 -> <<"B", "a">>
      [] pid = 4 -> <<"C", "a">>
      [] pid = 5 -> <<"D", "b">>
      [] pid = 6 -> <<"E", "c">>
      [] pid = 7 -> <<"F", "a">>
      [] OTHER -> <<"U", "n", "k">>

RECURSIVE PlayerTime(_, _)
\* player_time[pid] over a list of events
PlayerTime(evs, pid) ==
    IF evs = <<>> THEN 0
    ELSE (IF Head(evs).player_id = pid THEN Head(evs).time ELSE 0)
         + PlayerTime(Tail(evs), pid)

RECURSIVE FirstSeen(_)
\* the keys of player_time in insertion order
FirstSeen(evs) ==
    IF evs = <<>> THEN <<>>
    ELSE LET rest == FirstSeen(SubSeq(evs, 1, Len(evs) - 1))
             pid == evs[Len(evs)].player_id
         IN IF \E i \in 1 .. Len(rest) : rest[i] = pid THEN rest ELSE Append(rest, pid)

\* list.sort(key=.., reverse=True), keys[i] being the key of seq[i]:
\* descending, equal keys keep their order
SortDesc(seq, keys) ==
    LET n == Len(seq)
        pos(i) == 1 + Cardinality({j \in 1 .. n :
                        \/ keys[j] > keys[i]
                        \/ keys[j] = keys[i] /\ j < i})
    IN [k \in 1 .. n |-> seq[CHOOSE i \in 1 .. n : pos(i) = k]]

\* the roster without the "if total_time > 0" test
build_roster_unfiltered(evs) ==
    LET Entry(pid) == [id |-> pid, name |-> PlayerName(pid)]
        seen == FirstSeen(evs)
    IN SortDesc([i \in 1 .. Len(seen) |-> Entry(seen[i])],
                [i \in 1 .. Len(seen) |-> PlayerTime(evs, seen[i])])

\* lines 334-359
build_roster_from_events(evs) ==
    LET Played(pid) == PlayerTime(evs, pid) > 0
        Entry(pid) == [id |-> pid, name |-> PlayerName(pid)]
        played == SelectSeq(FirstSeen(evs), Played)
    IN SortDesc([i \in 1 .. Len(played) |-> Entry(played[i])],
                [i \in 1 .. Len(played) |-> PlayerTime(evs, played[i])])

\* lines 403-405 / 507-509: lineup to a list, game_id added
Tagged(game_events, gid) ==
    [i \in 1 .. Len(game_events) |->
        [player_id |-> game_events[i].player_id,
         lineup |-> SetToSeq(game_events[i].lineup),
         stats |-> game_events[i].stats,
         time |-> game_events[i].time,
         is_team_stat |-> game_events[i].is_team_stat,
         game_id |-> gid]]

\* the file: absent, a complete JSON document, or an incomplete one
\* (opened with mode 'w', json.dump not finished)
NoFile == [exists |-> FALSE, complete |-> FALSE, games_processed |-> 0,
           roster |-> <<>>, events |-> <<>>]

Partial == [exists |-> TRUE, complete |-> FALSE, games_processed |-> 0,
            roster |-> <<>>, events |-> <<>>]

\* cache_data (lines 425-433 / 531-539); team, team_id, season and
\* built_at are left out
CacheData(total_games, all_events) ==
    [exists |-> TRUE, complete |-> TRUE, games_processed |-> total_games,
     roster |-> build_roster_from_events(all_events), events |-> all_events]

\* lines 466-469
ExistingGameIds(evs) == {evs[i].game_id : i \in 1 .. Len(evs)}

\* a set difference that removes nothing: every scheduled game counts as new
NewGameIdsAll(all_ids, existing) == all_ids

\* line 485
NewGameIds(all_ids, existing) ==
    LET IsNew(gid) == gid \notin existing
    IN SelectSeq(all_ids, IsNew)

\* an emptiness test that never fires
NoGamesNever(ids) == FALSE

\* "if not game_ids: return None" (lines 384-386 / 481-483)
NoGames(ids) == ids = <<>>

\* "if game_events is not None:" in place of the truthiness test
TruthyNotNone(res) == res.ok

\* "if game_events:" (lines 401 / 505)
Truthy(res) == res.ok /\ res.events # <<>>

(***************************************************************************)
(* The upstream documents of the games SpecCache processes.                *)
(***************************************************************************)
MaxGames == 2            \* games the schedule grows to

BoxOf(n, k) ==
    [found |-> TRUE, players |-> [i \in 1 .. n |-> BoxEntry(i, n, 1 .. k, {}, "desc")]]

PT(m) == [fmt |-> "PT", m |-> m, ds |-> 0]

\* game 1, 4, ..: five starters, one rebound two minutes in
\* game 2, 5, ..: player 1 out, 6 in, then a made three by 6 in overtime;
\*                on that same clock 2 out, 7 in and a rebound by 7, who
\*                so has a statistic but no floor time
\* game 3, 6, ..: a box score of four players (no starting five)
GameFeed(g) ==
    CASE g % 3 = 1 ->
            [box |-> BoxOf(6, 5),
             actions |-> <<Timed(Act("rebound", "", TeamId, 1, NoPerson, FALSE, FALSE, FALSE),
                                 1, PT(10))>>]
      [] g % 3 = 0 ->
            [box |-> BoxOf(4, 4),
             actions |-> <<Timed(Act("rebound", "", TeamId, 1, NoPerson, FALSE, FALSE, FALSE),
                                 1, PT(10))>>]
      [] OTHER ->
            [box |-> BoxOf(6, 5),
             actions |-> <<Timed(Act("substitution", "out", TeamId, 1, NoPerson, FALSE, FALSE, FALSE),
                                 1, PT(10)),
                           Timed(Act("substitution", "in", TeamId, 6, NoPerson, FALSE, FALSE, FALSE),
                                 1, PT(10)),
                           Timed(Act("3pt", "", TeamId, 6, 2, TRUE, FALSE, TRUE),
                                 5, PT(3)),
                           Timed(Act("substitution", "out", TeamId, 2, NoPerson, FALSE, FALSE, FALSE),
                                 5, PT(3)),
                           Timed(Act("substitution", "in", TeamId, 7, NoPerson, FALSE, FALSE, FALSE),
                                 5, PT(3)),
                           Timed(Act("rebound", "", TeamId, 7, NoPerson, FALSE, FALSE, FALSE),
                                 5, PT(3))>>]

\* what a fetch of game g may deliver: its documents, or a failed
\* play-by-play fetch, or a failed box-score fetch, or a stream that holds
\* one action without a readable clock (process_game_raw returns [])
UpstreamDocs(g) ==
    {GameFeed(g),
     [GameFeed(g) EXCEPT !.actions = <<>>],
     [GameFeed(g) EXCEPT !.box = [found |-> FALSE, players |-> <<>>]],
     [GameFeed(g) EXCEPT !.actions =
        <<Timed(Act("other", "", OppId, NoPerson, NoPerson, FALSE, FALSE, FALSE),
                1, [fmt |-> "bad", m |-> 0, ds |-> 0])>>]}

GameResults(g) == UNION {process_game_raw(f) : f \in UpstreamDocs(g)}

(***************************************************************************)
(* build_cache and update_cache, one step per remote call, per game of     *)
(* the loop, and per file operation; load_team_cache of the serving layer. *)
(***************************************************************************)
\* the function returns or dies: its locals are gone
DropLocals ==
    /\ game_ids' = <<>>
    /\ idx' = 1
    /\ acc' = <<>>
    /\ games_ok' = 0
    /\ cache' = NoFile
    /\ attempts' = <<>>

\* a run starts: the run before is remembered
BeginRun(kind) ==
    /\ op' = kind
    /\ game_ids' = <<>>
    /\ idx' = 1
    /\ acc' = <<>>
    /\ games_ok' = 0
    /\ attempts' = <<>>
    /\ fetch' = "none"
    /\ all_game_ids' = <<>>
    /\ file_at_start' = file
    /\ prev_run' = [op |-> op, sched |-> all_game_ids, outcome |-> outcome]

\* the schedule service learns of one more completed game
NewGame ==
    /\ schedule < MaxGames
    /\ schedule' = schedule + 1
    /\ UNCHANGED <<file, wpc, op, game_ids, idx, acc, games_ok, cache, attempts,
                   fetch, all_game_ids, file_at_start, outcome, prev_run,
                   team_cache, served>>
    /\ UNCHANGED notCacheVars

\* build_cache, lines 364-381
StartBuild ==
    /\ wpc = "idle"
    /\ BeginRun("build")
    /\ cache' = NoFile
    /\ wpc' = "games"
    /\ outcome' = "running"
    /\ UNCHANGED <<file, schedule, team_cache, served>>
    /\ UNCHANGED notCacheVars

\* update_cache, lines 447-472: no file -> return None; json.load of an
\* incomplete document raises
StartUpdate ==
    /\ wpc = "idle"
    /\ BeginRun("update")
    /\ IF ~file.exists
       THEN cache' = NoFile /\ wpc' = "idle" /\ outcome' = "no_cache"
       ELSE IF ~file.complete
       THEN cache' = NoFile /\ wpc' = "idle" /\ outcome' = "load_error"
       ELSE cache' = file /\ wpc' = "games" /\ outcome' = "running"
    /\ UNCHANGED <<file, schedule, team_cache, served>>
    /\ UNCHANGED notCacheVars

\* get_team_games and the tests on its result, lines 382-387 / 479-491;
\* the call raises ("error"), returns nothing ("empty") or the sorted list
FetchSchedule ==
    /\ wpc = "games"
    /\ \E kind \in {"error", "empty", "ok"} :
          LET listed == IF kind = "ok" THEN SetToSeq(1 .. schedule) ELSE <<>>
              fresh == IF op = "update"
                       THEN NewGameIds(listed, ExistingGameIds(cache.events))
                       ELSE listed
          IN /\ fetch' = IF kind = "error" THEN "error"
                         ELSE IF listed = <<>> THEN "empty" ELSE "ok"
             /\ all_game_ids' = listed
             /\ IF kind = "error"
                THEN wpc' = "idle" /\ outcome' = "sched_error" /\ DropLocals
                ELSE IF NoGames(listed)
                THEN wpc' = "idle" /\ outcome' = "no_games" /\ DropLocals
                ELSE IF op = "update" /\ fresh = <<>>
                THEN wpc' = "idle" /\ outcome' = "up_to_date" /\ DropLocals
                ELSE /\ wpc' = "loop" /\ outcome' = outcome /\ game_ids' = fresh
                     /\ UNCHANGED <<idx, acc, games_ok, cache, attempts>>
    /\ UNCHANGED <<file, schedule, op, file_at_start, prev_run, team_cache, served>>
    /\ UNCHANGED notCacheVars

\* one iteration of the loop over the games, lines 395-409 / 499-513
ProcessGame ==
    /\ wpc = "loop"
    /\ idx <= Len(game_ids)
    /\ \E res \in GameResults(game_ids[idx]) :
          /\ attempts' = Append(attempts, [gid |-> game_ids[idx], ok |-> res.ok,
                                           n |-> Len(res.events)])
          /\ IF Truthy(res)
             THEN /\ games_ok' = games_ok + 1
                  /\ acc' = acc \o Tagged(res.events, game_ids[idx])
             ELSE /\ games_ok' = games_ok
                  /\ acc' = acc
    /\ idx' = idx + 1
    /\ UNCHANGED <<file, schedule, wpc, op, game_ids, cache, fetch, all_game_ids,
                   file_at_start, outcome, prev_run, team_cache, served>>
    /\ UNCHANGED notCacheVars

\* open(cache_file, 'w'), lines 436 / 541: the file is truncated
OpenForWrite ==
    /\ wpc = "loop"
    /\ idx > Len(game_ids)
    /\ file' = Partial
    /\ wpc' = "dump"
    /\ UNCHANGED <<schedule, op, game_ids, idx, acc, games_ok, cache, attempts,
                   fetch, all_game_ids, file_at_start, outcome, prev_run,
                   team_cache, served>>
    /\ UNCHANGED notCacheVars

\* json.dump(cache_data, f) runs to its end, lines 437 / 542
Dump ==
    /\ wpc = "dump"
    /\ file' = IF op = "build"
               THEN CacheData(games_ok, acc)
               ELSE CacheData(cache.games_processed + games_ok, cache.events \o acc)
    /\ wpc' = "idle"
    /\ outcome' = "written"
    /\ DropLocals
    /\ UNCHANGED <<schedule, op, fetch, all_game_ids, file_at_start, prev_run,
                   team_cache, served>>
    /\ UNCHANGED notCacheVars

\* the run dies where it stands (killed, disk full, an exception raised
\* by a write): nothing in either function catches it or cleans up
Crash ==
    /\ wpc \in {"games", "loop", "dump"}
    /\ wpc' = "idle"
    /\ outcome' = "crashed"
    /\ DropLocals
    /\ UNCHANGED <<file, schedule, op, fetch, all_game_ids, file_at_start, prev_run,
                   team_cache, served>>
    /\ UNCHANGED notCacheVars

\* load_team_cache without its look into _team_cache
LoadTeamCacheAlwaysReads ==
    /\ IF ~file.exists
       THEN /\ served' = [kind |-> "missing", data |-> NoFile]
            /\ team_cache' = team_cache
       ELSE IF ~file.complete
       THEN /\ served' = [kind |-> "error", data |-> file]
            /\ team_cache' = team_cache
       ELSE /\ served' = [kind |-> "loaded", data |-> file]
            /\ team_cache' = file
    /\ UNCHANGED <<file, schedule, wpc, op, game_ids, idx, acc, games_ok, cache,
                   attempts, fetch, all_game_ids, file_at_start, outcome, prev_run>>
    /\ UNCHANGED notCacheVars

\* main.py load_team_cache, lines 37-53
LoadTeamCache ==
    /\ IF team_cache # NoFile
       THEN /\ served' = [kind |-> "memory", data |-> team_cache]
            /\ team_cache' = team_cache
       ELSE IF ~file.exists
       THEN /\ served' = [kind |-> "missing", data |-> NoFile]
            /\ team_cache' = team_cache
       ELSE IF ~file.complete
       THEN /\ served' = [kind |-> "error", data |-> file]
            /\ team_cache' = team_cache
       ELSE /\ served' = [kind |-> "loaded", data |-> file]
            /\ team_cache' = file
    /\ UNCHANGED <<file, schedule, wpc, op, game_ids, idx, acc, games_ok, cache,
                   attempts, fetch, all_game_ids, file_at_start, outcome, prev_run>>
    /\ UNCHANGED notCacheVars

CacheNext ==
    \/ NewGame
    \/ StartBuild
    \/ StartUpdate
    \/ FetchSchedule
    \/ ProcessGame
    \/ OpenForWrite
    \/ Dump
    \/ Crash
    \/ LoadTeamCache

(***************************************************************************)
(* main.py: get_player_id, calculate_usg, calculate_player_stats and       *)
(* query_stats.  Rates are kept in tenths (round(x, 1) times 10).          *)
(***************************************************************************)
MinMinutes == 5          \* min_minutes=5
ComparisonTop == 10      \* comparison[:10]

Range(seq) == {seq[i] : i \in 1 .. Len(seq)}

\* str.lower() on the letters of the name table
LowerCh(ch) ==
    CASE ch = "A" -> "a" [] ch = "B" -> "b" [] ch = "C" -> "c" [] ch = "D" -> "d"
      [] ch = "E" -> "e" [] ch = "F" -> "f" [] ch = "U" -> "u" [] OTHER -> ch

Lower(name) == [i \in 1 .. Len(name) |-> LowerCh(name[i])]

\* needle in hay
IsSubstring(needle, hay) ==
    \E i \in 0 .. (Len(hay) - Len(needle)) : SubSeq(hay, i + 1, i + Len(needle)) = needle

\* lines 63-69: the first roster player whose name contains the given name
get_player_id(name, roster) ==
    LET hits == {i \in 1 .. Len(roster) : IsSubstring(Lower(name), Lower(roster[i].name))}
    IN IF hits = {} THEN NoPerson
       ELSE roster[CHOOSE i \in hits : \A j \in hits : i <= j].id

\* lines 166-182: names that resolve are added, the others are passed over
ResolveNames(names, roster) ==
    {get_player_id(names[i], roster) : i \in 1 .. Len(names)} \ {NoPerson}

\* round(n / d, 0) for n >= 0, d > 0: to the nearest integer, halves to even
RoundDiv(n, d) ==
    LET q == n \div d
        r == n % d
    IN IF 2 * r < d THEN q
       ELSE IF 2 * r > d THEN q + 1
       ELSE IF q % 2 = 0 THEN q ELSE q + 1

\* the division without the test before it: a zero denominator raises
UsgError == 0 - 1

calculate_usg_unguarded(fga, fta, tov, team_fga, team_fta, team_tov) ==
    LET player_poss == 100 * fga + 44 * fta + 100 * tov
        team_poss == 100 * team_fga + 44 * team_fta + 100 * team_tov
    IN IF team_poss = 0 THEN UsgError
       ELSE RoundDiv(1000 * player_poss, team_poss)

\* lines 55-61, then round(usg, 1), in tenths of a percent
calculate_usg(fga, fta, tov, team_fga, team_fta, team_tov) ==
    LET player_poss == 100 * fga + 44 * fta + 100 * tov
        team_poss == 100 * team_fga + 44 * team_fta + 100 * team_tov
    IN IF team_poss = 0 THEN 0
       ELSE RoundDiv(1000 * player_poss, team_poss)

\* the team script's calculate_usg ("if team_usage <= 0: return 0"), rounded
\* to tenths of a percent like the other
script_calculate_usg(player_fga, player_fta, player_tov, team_fga, team_fta, team_tov) ==
    LET team_usage == 100 * team_fga + 44 * team_fta + 100 * team_tov
        player_usage == 100 * player_fga + 44 * player_fta + 100 * player_tov
    IN IF team_usage <= 0 THEN 0
       ELSE RoundDiv(1000 * player_usage, team_usage)

\* the filter without its second test
IncludedIgnoringOff(lineup, on, off) == on \subseteq lineup

\* lines 80-84: the two tests that let an event through
Included(lineup, on, off) == on \subseteq lineup /\ off \cap lineup = {}

\* the team totals without the turnovers
TeamStatNamesNoTov == {"FGA", "FTA"}

TeamStatNames == {"FGA", "FTA", "TOV"}

AggInit ==
    [time |-> [p \in Players |-> 0],
     stats |-> [p \in Players |-> NoStats],
     team |-> [p \in Players |-> NoStats]]

\* lines 77-96: the loop body
AggEvent(a, ev, on, off) ==
    LET lineup == Range(ev.lineup)
        pid == ev.player_id
    IN IF ~Included(lineup, on, off) THEN a
       ELSE [time |-> [a.time EXCEPT ![pid] = @ + ev.time],
             stats |-> [a.stats EXCEPT ![pid] = [s \in StatNames |-> @[s] + ev.stats[s]]],
             team |-> IF ev.is_team_stat
                      THEN [p \in Players |->
                              IF p \in lineup
                              THEN [s \in StatNames |->
                                      IF s \in TeamStatNames
                                      THEN a.team[p][s] + ev.stats[s]
                                      ELSE a.team[p][s]]
                              ELSE a.team[p]]
                      ELSE a.team]

RECURSIVE AggregateFrom(_, _, _, _, _)
AggregateFrom(a, evs, i, on, off) ==
    IF i > Len(evs) THEN a
    ELSE AggregateFrom(AggEvent(a, evs[i], on, off), evs, i + 1, on, off)

Aggregate(evs, on, off) == AggregateFrom(AggInit, evs, 1, on, off)

\* round(x * mult, 1) with "mult = 36 / mins if mins > 0 else 0", in tenths
Per36(x, time) == IF time > 0 THEN RoundDiv(x * 36 * 60 * 10, time) ELSE 0

\* lines 98-144: the record of one roster player
PlayerRecord(a, teammate) ==
    LET pid == teammate.id
        time == a.time[pid]
        st == a.stats[pid]
    IN [id |-> pid,
        name |-> teammate.name,
        min |-> RoundDiv(time * 10, 60),
        usg |-> calculate_usg(st["FGA"], st["FTA"], st["TOV"],
                              a.team[pid]["FGA"], a.team[pid]["FTA"], a.team[pid]["TOV"]),
        pts |-> Per36(st["PTS"], time),
        reb |-> Per36(st["REB"], time),
        ast |-> Per36(st["AST"], time),
        fga |-> Per36(st["FGA"], time),
        fg3a |-> Per36(st["FG3A"], time),
        pra |-> Per36(st["PTS"] + st["REB"] + st["AST"], time)]

\* the result loop without its minutes threshold
QualifiesAlways(a, teammate) == TRUE

\* lines 100-105: "if mins < min_minutes: continue"
Qualifies(a, teammate) == a.time[teammate.id] >= MinMinutes * 60

\* lines 71-146: the result dict, as the list of its values in insertion
\* (roster) order
StatsOf(a, roster) ==
    LET Keep(teammate) == Qualifies(a, teammate)
        kept == SelectSeq(roster, Keep)
    IN [i \in 1 .. Len(kept) |-> PlayerRecord(a, kept[i])]

calculate_player_stats(evs, roster, on, off) == StatsOf(Aggregate(evs, on, off), roster)

\* the differences taken the other way round
DiffSwapped(off_stat, on_stat) ==
    [id |-> off_stat.id,
     name |-> off_stat.name,
     min_with |-> on_stat.min,
     usg_diff |-> on_stat.usg - off_stat.usg,
     pts_diff |-> on_stat.pts - off_stat.pts,
     reb_diff |-> on_stat.reb - off_stat.reb,
     ast_diff |-> on_stat.ast - off_stat.ast,
     fga_diff |-> on_stat.fga - off_stat.fga,
     fg3a_diff |-> on_stat.fg3a - off_stat.fg3a,
     pra_diff |-> on_stat.pra - off_stat.pra]

\* lines 198-217: one comparison entry
Diff(off_stat, on_stat) ==
    [id |-> off_stat.id,
     name |-> off_stat.name,
     min_with |-> on_stat.min,
     usg_diff |-> off_stat.usg - on_stat.usg,
     pts_diff |-> off_stat.pts - on_stat.pts,
     reb_diff |-> off_stat.reb - on_stat.reb,
     ast_diff |-> off_stat.ast - on_stat.ast,
     fga_diff |-> off_stat.fga - on_stat.fga,
     fg3a_diff |-> off_stat.fg3a - on_stat.fg3a,
     pra_diff |-> off_stat.pra - on_stat.pra]

\* lines 190-221 given the two result dicts (each as the list of its
\* values): "if off_ids:", the loop over main_stats, the sort and the cut
CompareResults(main_stats, baseline, off) ==
    IF off = {} THEN <<>>
    ELSE LET InBoth(r) == r.id \notin off /\ \E k \in 1 .. Len(baseline) : baseline[k].id = r.id
             shared == SelectSeq(main_stats, InBoth)
             Base(r) == baseline[CHOOSE k \in 1 .. Len(baseline) : baseline[k].id = r.id]
             diffs == [i \in 1 .. Len(shared) |-> Diff(shared[i], Base(shared[i]))]
             sorted == SortDesc(diffs, [i \in 1 .. Len(diffs) |-> diffs[i].min_with])
         IN SubSeq(sorted, 1, IF Len(sorted) < ComparisonTop THEN Len(sorted) ELSE ComparisonTop)

\* lines 191-221
Comparison(evs, roster, main_stats, on, off) ==
    CompareResults(main_stats, calculate_player_stats(evs, roster, on \cup off, {}), off)

\* lines 187-189
SortedPlayers(main_stats) ==
    SortDesc(main_stats, [i \in 1 .. Len(main_stats) |-> main_stats[i].min])

(***************************************************************************)
(* The snapshots SpecQuery draws from: a build over two games.  Game 1 is  *)
(* five starters and three actions two minutes apart; game 2 has one of    *)
(* three box scores and up to MaxQueryActions actions, each a body that    *)
(* comes either two minutes after the one before or on the same clock.     *)
(***************************************************************************)
MaxQueryActions == 2

QueryBodies ==
    {Act("substitution", "out", TeamId, 1, NoPerson, FALSE, FALSE, FALSE),
     Act("substitution", "in", TeamId, 6, NoPerson, FALSE, FALSE, FALSE),
     Act("3pt", "", TeamId, 6, 2, TRUE, FALSE, TRUE),
     Act("turnover", "", TeamId, 3, NoPerson, FALSE, FALSE, FALSE)}

QuerySteps == QueryBodies \X BOOLEAN

RECURSIVE SeqsUpTo(_, _)
SeqsUpTo(S, n) ==
    IF n = 0 THEN {<<>>}
    ELSE LET shorter == SeqsUpTo(S, n - 1)
         IN shorter \cup {Append(q, x) : q \in {r \in shorter : Len(r) = n - 1}, x \in S}

\* the clock of step i: two minutes off the period for every advancing step
\* up to and including i
StepClock(steps, i) ==
    LET advanced == Cardinality({j \in 1 .. i : steps[j][2]})
    IN PT((RegPeriodLen \div 60) - 2 * advanced)

StepsToActions(steps) ==
    [i \in 1 .. Len(steps) |-> Timed(steps[i][1], 1, StepClock(steps, i))]

BaseGame ==
    [box |-> BoxOf(6, 5),
     actions |-> <<Timed(Act("3pt", "", TeamId, 1, 2, TRUE, FALSE, TRUE), 1, PT(10)),
                   Timed(Act("turnover", "", TeamId, 3, NoPerson, FALSE, FALSE, FALSE), 1, PT(8)),
                   Timed(Act("freethrow", "", TeamId, 4, NoPerson, TRUE, FALSE, FALSE), 1, PT(6))>>]

\* starters {1..5} (flags), {2..6} (no flags, minutes ascending), {1..6}
QueryBoxes ==
    {BoxOf(6, 5),
     [found |-> TRUE, players |-> [i \in 1 .. 6 |-> BoxEntry(i, 6, {}, {}, "asc")]],
     BoxOf(6, 6)}

QueryFeeds ==
    {[box |-> b, actions |-> StepsToActions(steps)] :
        b \in QueryBoxes, steps \in SeqsUpTo(QuerySteps, MaxQueryActions)}

\* build_cache over the two games
BuildOf(results) ==
    LET EventsOf(i) == IF Truthy(results[i]) THEN Tagged(results[i].events, i) ELSE <<>>
        all_events == EventsOf(1) \o EventsOf(2)
        ok == Cardinality({i \in 1 .. 2 : Truthy(results[i])})
    IN CacheData(ok, all_events)

QuerySnapshots ==
    {BuildOf(<<r1, r2>>) :
        r1 \in process_game_raw(BaseGame),
        r2 \in UNION {process_game_raw(f) : f \in QueryFeeds}}

(***************************************************************************)
(* A one-period game: five starters, one of them replaced by player 6 at   *)
(* the clock sub (minutes left), then a made three by player 6 gap minutes *)
(* later; the snapshot build_cache makes of that one game.                 *)
(***************************************************************************)
NoScenario == [out |-> 0, sub |-> 0, gap |-> 0]

\* the midpoint of a regulation period, in minutes left on the clock
Midpoint == (RegPeriodLen \div 60) \div 2

\* the substitution one, two or six minutes into the period; the three
\* one, two or three minutes after it
Scenarios ==
    [out : 1 .. LineupSize,
     sub : {(RegPeriodLen \div 60) - 1, (RegPeriodLen \div 60) - 2, Midpoint},
     gap : 1 .. 3]

ScenarioFeed(sc) ==
    [box |-> BoxOf(6, 5),
     actions |-> <<Timed(Act("substitution", "out", TeamId, sc.out, NoPerson, FALSE, FALSE, FALSE),
                         1, PT(sc.sub)),
                   Timed(Act("substitution", "in", TeamId, 6, NoPerson, FALSE, FALSE, FALSE),
                         1, PT(sc.sub)),
                   Timed(Act("3pt", "", TeamId, 6, NoPerson, TRUE, FALSE, TRUE),
                         1, PT(sc.sub - sc.gap))>>]

\* build_cache over the one game
ScenarioSnapshots(sc) ==
    {IF Truthy(res) THEN CacheData(1, Tagged(res.events, 1)) ELSE CacheData(0, <<>>) :
        res \in process_game_raw(ScenarioFeed(sc))}

(***************************************************************************)
(* A game in which player 1 sits out a short stretch (player 7 in his      *)
(* place) and player 2 a long one (player 6 in his place), so that the     *)
(* floor times of players 1 and 2 without player 6 differ by the short     *)
(* stretch; the snapshot build_cache makes of that one game.               *)
(***************************************************************************)
\* a clock string of sec seconds
ClockOf(sec) == [fmt |-> "PT", m |-> sec \div 60, ds |-> (sec % 60) * 10]

OwnAct(kind, sub, person) == Act(kind, sub, TeamId, person, NoPerson, FALSE, FALSE, FALSE)

\* the lengths of the short stretch, in seconds; the clock at which the
\* long stretch ends
ShortStretches == {1, 2, 3, 6, 30}

LongEnds == {300, 330, 360}

OrderFeed(short, end) ==
    [box |-> BoxOf(6, 5),
     actions |-> <<Timed(OwnAct("rebound", "", 3), 1, ClockOf(600)),
                   Timed(OwnAct("rebound", "", 3), 1, ClockOf(480)),
                   Timed(OwnAct("substitution", "out", 1), 1, ClockOf(420)),
                   Timed(OwnAct("substitution", "in", 7), 1, ClockOf(420)),
                   Timed(OwnAct("substitution", "out", 7), 1, ClockOf(420 - short)),
                   Timed(OwnAct("substitution", "in", 1), 1, ClockOf(420 - short)),
                   Timed(OwnAct("substitution", "out", 2), 1, ClockOf(420 - short)),
                   Timed(OwnAct("substitution", "in", 6), 1, ClockOf(420 - short)),
                   Timed(OwnAct("rebound", "", 6), 1, ClockOf(end))>>]

OrderSnapshots ==
    UNION {{IF Truthy(res) THEN CacheData(1, Tagged(res.events, 1)) ELSE CacheData(0, <<>>) :
               res \in process_game_raw(OrderFeed(short, end))} :
           short \in ShortStretches, end \in LongEnds}

\* the name lists a query is given: "ab" is player 1's name in lower case,
\* "e" is part of player 6's, "z" is part of nobody's
QueryNameLists ==
    {<<>>, <<<<"a", "b">>>>, <<<<"z">>>>, <<<<"a", "b">>, <<"e">>>>, <<<<"e">>, <<"z">>>>}

\* query_stats, lines 148-231, on the snapshot held in _team_cache
QueryStats ==
    /\ q_ret = "none"
    /\ team_cache # NoFile
    /\ \E ons \in QueryNameLists, offs \in QueryNameLists :
          LET evs == team_cache.events
              roster == team_cache.roster
              on == ResolveNames(ons, roster)
              off == ResolveNames(offs, roster)
              a == Aggregate(evs, on, off)
              main_stats == StatsOf(a, roster)
          IN /\ q_on' = ons
             /\ q_off' = offs
             /\ on_ids' = on
             /\ off_ids' = off
             /\ agg' = a
             /\ players' = SortedPlayers(main_stats)
             /\ comparison' = Comparison(evs, roster, main_stats, on, off)
             /\ q_ret' = "result"
    /\ UNCHANGED notQueryVars

\* the handler has returned: its locals are gone, the next request starts
\* from nothing but the snapshot in _team_cache
Respond ==
    /\ q_ret = "result"
    /\ q_on' = <<>>
    /\ q_off' = <<>>
    /\ on_ids' = {}
    /\ off_ids' = {}
    /\ agg' = AggInit
    /\ players' = <<>>
    /\ comparison' = <<>>
    /\ q_ret' = "none"
    /\ UNCHANGED notQueryVars

QueryNext == QueryStats \/ Respond

(***************************************************************************)
(* calculate_usg applied to attempt counts drawn from 0 .. MaxStat.        *)
(***************************************************************************)
MaxStat == 2

CalculateUsg ==
    /\ \E fga, fta, tov, team_fga, team_fta, team_tov \in 0 .. MaxStat :
          /\ u_args' = <<fga, fta, tov, team_fga, team_fta, team_tov>>
          /\ u_ret' = calculate_usg(fga, fta, tov, team_fga, team_fta, team_tov)
          /\ u_script' = script_calculate_usg(fga, fta, tov, team_fga, team_fta, team_tov)
    /\ UNCHANGED notUsgVars

UsgNext == CalculateUsg

(***************************************************************************)
(* The Phoenix script.  Its process_game_raw takes roster_ids and emits a  *)
(* time event only for a lineup player in roster_ids; its build_cache and  *)
(* update_cache store the roster get_roster returned.  A run is one step   *)
(* here: the file operations are those of the other script.                *)
(***************************************************************************)
\* Phoenix lines 239-249: "if pid in roster_ids" on the time events
RosterFiltered(evs, roster_ids) ==
    LET Kept(ev) == ev.time = 0 \/ ev.player_id \in roster_ids
    IN SelectSeq(evs, Kept)

\* Phoenix process_game_raw(game_id, team_id, roster_ids), lines 195-351
phoenix_process_game_raw(feed, roster_ids) ==
    {[ok |-> r.ok, events |-> RosterFiltered(r.events, roster_ids)] :
        r \in process_game_raw(feed)}

RosterEntries(ids) == [i \in 1 .. Len(ids) |-> [id |-> ids[i], name |-> PlayerName(ids[i])]]

\* what commonteamroster may return: the five starters; the squad after
\* player 1 left and 6 and 7 arrived; everybody; nothing (the call failed)
EndpointRosters ==
    {RosterEntries(<<1, 2, 3, 4, 5>>),
     RosterEntries(<<7, 6, 5, 4, 3, 2>>),
     RosterEntries(<<1, 2, 3, 4, 5, 6, 7>>),
     <<>>}

\* a game of the schedule as the Phoenix script may see it
PhoenixGameResults(g, roster_ids) ==
    UNION {phoenix_process_game_raw(doc, roster_ids) : doc \in UpstreamDocs(g)}

RECURSIVE PhoenixRuns(_, _)
\* the loop over the games: every (all_events, games_ok) it may end with
PhoenixRuns(gids, roster_ids) ==
    IF gids = <<>> THEN {[events |-> <<>>, games_ok |-> 0]}
    ELSE LET front == PhoenixRuns(SubSeq(gids, 1, Len(gids) - 1), roster_ids)
             gid == gids[Len(gids)]
         IN {IF Truthy(res)
             THEN [events |-> f.events \o Tagged(res.events, gid), games_ok |-> f.games_ok + 1]
             ELSE f :
                f \in front, res \in PhoenixGameResults(gid, roster_ids)}

PhoenixData(games, roster, all_events) ==
    [exists |-> TRUE, complete |-> TRUE, games_processed |-> games,
     roster |-> roster, events |-> all_events]

\* Phoenix build_cache, lines 356-436
PhoenixBuild ==
    /\ \E roster \in EndpointRosters :
          LET roster_ids == {roster[i].id : i \in 1 .. Len(roster)}
              ids == SetToSeq(1 .. schedule)
          IN /\ px_roster' = roster
             /\ IF roster = <<>>
                THEN px_ret' = "no_roster" /\ px_file' = px_file
                ELSE IF NoGames(ids)
                THEN px_ret' = "no_games" /\ px_file' = px_file
                ELSE \E run \in PhoenixRuns(ids, roster_ids) :
                        /\ px_ret' = "written"
                        /\ px_file' = PhoenixData(run.games_ok, roster, run.events)
    /\ UNCHANGED schedule
    /\ UNCHANGED notPhoenixVars

\* Phoenix update_cache, lines 438-553
PhoenixUpdate ==
    /\ \E roster \in EndpointRosters :
          LET roster_ids == {roster[i].id : i \in 1 .. Len(roster)}
              all_ids == SetToSeq(1 .. schedule)
              new_ids == NewGameIds(all_ids, ExistingGameIds(px_file.events))
          IN IF ~px_file.exists
             THEN px_ret' = "no_cache" /\ px_file' = px_file /\ px_roster' = px_roster
             ELSE /\ px_roster' = roster
                  /\ IF roster = <<>>
                     THEN px_ret' = "no_roster" /\ px_file' = px_file
                     ELSE IF NoGames(all_ids)
                     THEN px_ret' = "no_games" /\ px_file' = px_file
                     ELSE IF new_ids = <<>>
                     THEN px_ret' = "up_to_date" /\ px_file' = px_file
                     ELSE \E run \in PhoenixRuns(new_ids, roster_ids) :
                             /\ px_ret' = "written"
                             /\ px_file' = PhoenixData(px_file.games_processed + run.games_ok,
                                                        roster, px_file.events \o run.events)
    /\ UNCHANGED schedule
    /\ UNCHANGED notPhoenixVars

PhoenixNext == NewGame \/ PhoenixBuild \/ PhoenixUpdate

(***************************************************************************)
(* The comparison applied to result dicts of a squad of SquadSize players. *)
(* main_stats holds the players 1 .. m, the baseline the players lo ..     *)
(* SquadSize; the off players are the last of the squad: they are in every *)
(* lineup the baseline counts and in none the main result counts.          *)
(***************************************************************************)
SquadSize == 13

MinutePlans == {"rising", "level", "falling"}

\* a result record of player p, its numbers spread by p
SquadRecord(p, plan, base) ==
    [id |-> p,
     name |-> <<"P", p>>,
     min |-> CASE plan = "rising" -> 60 + 10 * p
               [] plan = "level" -> 80
               [] OTHER -> 400 - 10 * p,
     usg |-> base + 7 * p + (base \div 20) * p,
     pts |-> base + 11 * p,
     reb |-> 200 - base + 3 * p,
     ast |-> 2 * base + p,
     fga |-> base + 5 * p,
     fg3a |-> base + 2 * p,
     pra |-> 3 * base + 15 * p]

SquadOffSets == {{}, {SquadSize}, {SquadSize - 1, SquadSize}}

\* main_stats holds the players 1 .. m, less the off players
MainSizes == {0, 3, 5, 8, SquadSize - 2, SquadSize - 1, SquadSize}

\* the baseline holds the players lo .. SquadSize
BaseStarts == {1, 2, 6, SquadSize + 1}

CompareDicts ==
    /\ \E m \in MainSizes, lo \in BaseStarts,
          off \in SquadOffSets, plan \in MinutePlans :
          LET main_ids == SetToSeq((1 .. m) \ off)
              base_ids == SetToSeq(lo .. SquadSize)
              main_stats == [i \in 1 .. Len(main_ids) |-> SquadRecord(main_ids[i], plan, 100)]
              \* an off player is in every lineup the baseline counts: nobody
              \* has more baseline minutes
              baseline == [i \in 1 .. Len(base_ids) |->
                             IF base_ids[i] \in off
                             THEN [SquadRecord(base_ids[i], plan, 40) EXCEPT !.min = 400]
                             ELSE SquadRecord(base_ids[i], plan, 40)]
          IN /\ c_main' = main_stats
             \* without off players the baseline is never computed
             /\ c_base' = IF off = {} THEN <<>> ELSE baseline
             /\ c_off' = off
             /\ c_out' = CompareResults(main_stats, baseline, off)
    /\ UNCHANGED notCompareVars

CompareNext == CompareDicts

(***************************************************************************)
(* The specifications.                                                     *)
(***************************************************************************)
\* before any call: process_game_raw not entered, no snapshot file, no run
Init ==
    /\ file = NoFile
    /\ team_cache = NoFile
    /\ served = [kind |-> "none", data |-> NoFile]
    /\ gpc = "starters"
    /\ current_lineup = {}
    /\ remaining = 0
    /\ prev_period = 0
    /\ prev_clock = RegPeriodLen
    /\ events = <<>>
    /\ last_action = NoAction
    /\ last_delta = 0
    /\ last_before = {}
    /\ ret = "running"
    /\ schedule = 0
    /\ wpc = "idle"
    /\ op = "none"
    /\ game_ids = <<>>
    /\ idx = 1
    /\ acc = <<>>
    /\ games_ok = 0
    /\ cache = NoFile
    /\ attempts = <<>>
    /\ fetch = "none"
    /\ all_game_ids = <<>>
    /\ file_at_start = NoFile
    /\ outcome = "none"
    /\ prev_run = [op |-> "none", sched |-> <<>>, outcome |-> "none"]
    /\ q_on = <<>>
    /\ q_off = <<>>
    /\ on_ids = {}
    /\ off_ids = {}
    /\ agg = AggInit
    /\ players = <<>>
    /\ comparison = <<>>
    /\ q_ret = "none"
    /\ u_args = <<0, 0, 0, 0, 0, 0>>
    /\ u_ret = 0
    /\ u_script = 0
    /\ c_main = <<>>
    /\ c_base = <<>>
    /\ c_off = {}
    /\ c_out = <<>>
    /\ px_file = NoFile
    /\ px_roster = <<>>
    /\ px_ret = "none"
    /\ credited = NoCredit
    /\ scenario = NoScenario

InitClock ==
    /\ file = NoFile
    /\ team_cache = NoFile
    /\ served = [kind |-> "none", data |-> NoFile]
    /\ gpc = "loop"
    /\ current_lineup = 1 .. LineupSize
    /\ remaining = MaxClockActions
    /\ prev_period = 0
    /\ prev_clock = RegPeriodLen
    /\ events = <<>>
    /\ last_action = NoAction
    /\ last_delta = 0
    /\ last_before = {}
    /\ ret = "running"
    /\ schedule = 0
    /\ wpc = "idle"
    /\ op = "none"
    /\ game_ids = <<>>
    /\ idx = 1
    /\ acc = <<>>
    /\ games_ok = 0
    /\ cache = NoFile
    /\ attempts = <<>>
    /\ fetch = "none"
    /\ all_game_ids = <<>>
    /\ file_at_start = NoFile
    /\ outcome = "none"
    /\ prev_run = [op |-> "none", sched |-> <<>>, outcome |-> "none"]
    /\ q_on = <<>>
    /\ q_off = <<>>
    /\ on_ids = {}
    /\ off_ids = {}
    /\ agg = AggInit
    /\ players = <<>>
    /\ comparison = <<>>
    /\ q_ret = "none"
    /\ u_args = <<0, 0, 0, 0, 0, 0>>
    /\ u_ret = 0
    /\ u_script = 0
    /\ c_main = <<>>
    /\ c_base = <<>>
    /\ c_off = {}
    /\ c_out = <<>>
    /\ px_file = NoFile
    /\ px_roster = <<>>
    /\ px_ret = "none"
    /\ credited = NoCredit
    /\ scenario = NoScenario

\* the serving layer with a snapshot loaded by load_team_cache
InitQuery ==
    /\ \E snap \in QuerySnapshots :
          /\ file = snap
          /\ team_cache = snap
          /\ served = [kind |-> "loaded", data |-> snap]
    /\ gpc = "starters"
    /\ current_lineup = {}
    /\ remaining = 0
    /\ prev_period = 0
    /\ prev_clock = RegPeriodLen
    /\ events = <<>>
    /\ last_action = NoAction
    /\ last_delta = 0
    /\ last_before = {}
    /\ ret = "running"
    /\ schedule = 0
    /\ wpc = "idle"
    /\ op = "none"
    /\ game_ids = <<>>
    /\ idx = 1
    /\ acc = <<>>
    /\ games_ok = 0
    /\ cache = NoFile
    /\ attempts = <<>>
    /\ fetch = "none"
    /\ all_game_ids = <<>>
    /\ file_at_start = NoFile
    /\ outcome = "none"
    /\ prev_run = [op |-> "none", sched |-> <<>>, outcome |-> "none"]
    /\ q_on = <<>>
    /\ q_off = <<>>
    /\ on_ids = {}
    /\ off_ids = {}
    /\ agg = AggInit
    /\ players = <<>>
    /\ comparison = <<>>
    /\ q_ret = "none"
    /\ u_args = <<0, 0, 0, 0, 0, 0>>
    /\ u_ret = 0
    /\ u_script = 0
    /\ c_main = <<>>
    /\ c_base = <<>>
    /\ c_off = {}
    /\ c_out = <<>>
    /\ px_file = NoFile
    /\ px_roster = <<>>
    /\ px_ret = "none"
    /\ credited = NoCredit
    /\ scenario = NoScenario

InitOrder ==
    /\ \E snap \in OrderSnapshots :
          /\ file = snap
          /\ team_cache = snap
          /\ served = [kind |-> "loaded", data |-> snap]
    /\ gpc = "starters"
    /\ current_lineup = {}
    /\ remaining = 0
    /\ prev_period = 0
    /\ prev_clock = RegPeriodLen
    /\ events = <<>>
    /\ last_action = NoAction
    /\ last_delta = 0
    /\ last_before = {}
    /\ ret = "running"
    /\ schedule = 0
    /\ wpc = "idle"
    /\ op = "none"
    /\ game_ids = <<>>
    /\ idx = 1
    /\ acc = <<>>
    /\ games_ok = 0
    /\ cache = NoFile
    /\ attempts = <<>>
    /\ fetch = "none"
    /\ all_game_ids = <<>>
    /\ file_at_start = NoFile
    /\ outcome = "none"
    /\ prev_run = [op |-> "none", sched |-> <<>>, outcome |-> "none"]
    /\ q_on = <<>>
    /\ q_off = <<>>
    /\ on_ids = {}
    /\ off_ids = {}
    /\ agg = AggInit
    /\ players = <<>>
    /\ comparison = <<>>
    /\ q_ret = "none"
    /\ u_args = <<0, 0, 0, 0, 0, 0>>
    /\ u_ret = 0
    /\ u_script = 0
    /\ c_main = <<>>
    /\ c_base = <<>>
    /\ c_off = {}
    /\ c_out = <<>>
    /\ px_file = NoFile
    /\ px_roster = <<>>
    /\ px_ret = "none"
    /\ credited = NoCredit
    /\ scenario = NoScenario

InitScenario ==
    /\ \E sc \in Scenarios :
          \E snap \in ScenarioSnapshots(sc) :
             /\ scenario = sc
             /\ file = snap
             /\ team_cache = snap
             /\ served = [kind |-> "loaded", data |-> snap]
    /\ gpc = "starters"
    /\ current_lineup = {}
    /\ remaining = 0
    /\ prev_period = 0
    /\ prev_clock = RegPeriodLen
    /\ events = <<>>
    /\ last_action = NoAction
    /\ last_delta = 0
    /\ last_before = {}
    /\ ret = "running"
    /\ schedule = 0
    /\ wpc = "idle"
    /\ op = "none"
    /\ game_ids = <<>>
    /\ idx = 1
    /\ acc = <<>>
    /\ games_ok = 0
    /\ cache = NoFile
    /\ attempts = <<>>
    /\ fetch = "none"
    /\ all_game_ids = <<>>
    /\ file_at_start = NoFile
    /\ outcome = "none"
    /\ prev_run = [op |-> "none", sched |-> <<>>, outcome |-> "none"]
    /\ q_on = <<>>
    /\ q_off = <<>>
    /\ on_ids = {}
    /\ off_ids = {}
    /\ agg = AggInit
    /\ players = <<>>
    /\ comparison = <<>>
    /\ q_ret = "none"
    /\ u_args = <<0, 0, 0, 0, 0, 0>>
    /\ u_ret = 0
    /\ u_script = 0
    /\ c_main = <<>>
    /\ c_base = <<>>
    /\ c_off = {}
    /\ c_out = <<>>
    /\ px_file = NoFile
    /\ px_roster = <<>>
    /\ px_ret = "none"
    /\ credited = NoCredit

SpecGame == Init /\ [][GameNext]_vars

SpecCache == Init /\ [][CacheNext]_vars

SpecQuery == InitQuery /\ [][QueryNext]_vars

SpecUsg == Init /\ [][UsgNext]_vars

SpecCompare == Init /\ [][CompareNext]_vars

SpecPhoenix == Init /\ [][PhoenixNext]_vars

SpecScenario == InitScenario /\ [][QueryNext]_vars

SpecOrder == InitOrder /\ [][QueryNext]_vars

SpecClock == InitClock /\ [][ClockNext]_vars

Spec == SpecCache

(***************************************************************************)
(* Claims about process_game_raw (SpecGame).                               *)
(***************************************************************************)

\* C1: every event emitted by process_game_raw, time-only or statistic,
\* carries a lineup of exactly 5 player identifiers.
C1_EveryLineupHasFive ==
    \A i \in 1 .. Len(events) : Cardinality(events[i].lineup) = LineupSize

\* C8: process_game_raw goes on past the starting-lineup test only with a
\* starting lineup of exactly 5 identifiers; with fewer or more than 5 it
\* returns no events.
C8_SkipUnlessExactlyFive ==
    gpc = "pbp" => Cardinality(current_lineup) = LineupSize

(***************************************************************************)
(* Claims about build_cache / update_cache and the snapshot file           *)
(* (SpecCache).                                                            *)
(***************************************************************************)
RunEnded == wpc = "idle" /\ outcome \notin {"none", "running"}

\* two update runs in succession, both returning normally, the second
\* given the same schedule as the first
TwoUpdatesSameSchedule ==
    /\ RunEnded
    /\ op = "update"
    /\ outcome \in {"written", "up_to_date"}
    /\ prev_run.op = "update"
    /\ prev_run.outcome \in {"written", "up_to_date"}
    /\ prev_run.sched = all_game_ids

AllRepresentedAtStart ==
    \A i \in 1 .. Len(all_game_ids) :
        all_game_ids[i] \in ExistingGameIds(file_at_start.events)

\* C4 (as stated): update_cache run twice in succession with no new games
\* in the schedule between the runs leaves the events array identical
\* after the second run.
C4_SecondUpdateKeepsEvents ==
    TwoUpdatesSameSchedule => file.events = file_at_start.events

\* C4 (amended): update_cache run twice in succession with no new games in
\* the schedule between the runs, every scheduled game being represented
\* among the stored events when the second run starts, leaves the snapshot
\* (and so its events array) identical after the second run.
C4_SecondUpdateIsNoOp ==
    (TwoUpdatesSameSchedule /\ AllRepresentedAtStart) => file = file_at_start

C4_Witness ==
    /\ TwoUpdatesSameSchedule
    /\ AllRepresentedAtStart
    /\ Len(all_game_ids) >= 2
    /\ file.events # <<>>

\* C5: a build or update run that fails at any step leaves the persisted
\* snapshot as it was before the run: the file is never left a partial
\* document.
C5_FailedRunKeepsSnapshot ==
    (RunEnded /\ outcome \in {"crashed", "sched_error", "load_error", "no_games", "no_cache"})
        => file = file_at_start

\* C6: load_team_cache, run while build_cache / update_cache writes the
\* same file, reads a complete snapshot (the old or the new one), never an
\* intermediate document.
C6_ReaderSeesCompleteSnapshot ==
    served.data.exists => served.data.complete

\* C9: a game that failed or yielded no events is skipped without ending
\* the run: the loop moves to the next game, the events and games_ok stay
\* as they were; games_ok counts exactly the games that contributed
\* events, and the file is opened for writing only after every game of the
\* list was attempted.
C9_GameStep ==
    (wpc = "loop" /\ Len(attempts') = Len(attempts) + 1) =>
        LET a == attempts'[Len(attempts')]
        IN /\ wpc' = "loop"
           /\ idx' = idx + 1
           /\ a.gid = game_ids[idx]
           /\ (~a.ok \/ a.n = 0) => (acc' = acc /\ games_ok' = games_ok)
           /\ (a.ok /\ a.n > 0) => (games_ok' = games_ok + 1 /\ Len(acc') = Len(acc) + a.n)

C9_LoopExit ==
    (wpc = "loop" /\ wpc' = "dump") =>
        /\ [i \in 1 .. Len(attempts) |-> attempts[i].gid] = game_ids
        /\ games_ok = Cardinality({i \in 1 .. Len(attempts) : attempts[i].ok /\ attempts[i].n > 0})
        /\ ExistingGameIds(acc) =
              {attempts[i].gid : i \in {j \in 1 .. Len(attempts) : attempts[j].ok /\ attempts[j].n > 0}}

C9_SkippedGameDoesNotAbort == [][C9_GameStep /\ C9_LoopExit]_vars

C9_Witness ==
    /\ wpc = "dump"
    /\ \E i, j \in 1 .. Len(attempts) :
          i < j /\ attempts[i].n = 0 /\ attempts[j].n > 0
    /\ \E i \in 1 .. Len(attempts) : attempts[i].ok /\ attempts[i].n = 0
    /\ games_ok < Len(attempts)

\* C10: when get_team_games fails or returns no games, the run ends
\* without any write: the snapshot file is as it was when the run started.
C10_NoScheduleNoWrite ==
    fetch \in {"error", "empty"} => (wpc = "idle" /\ file = file_at_start)

C10_Witness ==
    /\ fetch \in {"error", "empty"}
    /\ outcome \in {"sched_error", "no_games"}
    /\ op = "update"
    /\ file.exists /\ file.complete /\ file.events # <<>>

(***************************************************************************)
(* Claims about calculate_player_stats / query_stats (SpecQuery).          *)
(***************************************************************************)
\* the condition of the filter, written out on the stored event
MeetsFilter(ev) ==
    /\ \A p \in on_ids : \E k \in 1 .. Len(ev.lineup) : ev.lineup[k] = p
    /\ \A k \in 1 .. Len(ev.lineup) : ev.lineup[k] \notin off_ids

Carries(ev) == ev.time > 0 \/ ev.stats # NoStats

\* C2: an event of the snapshot contributes to the aggregation (floor
\* time, stat totals, team-possession inputs) if and only if every on
\* identifier is in its lineup and no off identifier is: the aggregation of
\* the query equals the unfiltered aggregation of exactly the events that
\* meet the condition.
C2_IncludedIffOnSubsetAndOffDisjoint ==
    q_ret = "result" =>
        agg = Aggregate(SelectSeq(team_cache.events, MeetsFilter), {}, {})

C2_Witness ==
    /\ q_ret = "result"
    /\ on_ids # {}
    /\ off_ids # {}
    /\ \E i, j, k \in 1 .. Len(team_cache.events) :
          LET evs == team_cache.events
          IN /\ MeetsFilter(evs[i]) /\ evs[i].time > 0
             /\ MeetsFilter(evs[j]) /\ evs[j].is_team_stat
             /\ ~MeetsFilter(evs[k]) /\ Carries(evs[k])
             /\ \A p \in on_ids : \E m \in 1 .. Len(evs[k].lineup) : evs[k].lineup[m] = p
    /\ \E k \in 1 .. Len(team_cache.events) :
          LET ev == team_cache.events[k]
          IN Carries(ev) /\ \E p \in on_ids : \A m \in 1 .. Len(ev.lineup) : ev.lineup[m] # p

\* the floor time the snapshot holds for player q in events whose lineup
\* contains P
RECURSIVE TimeWhileFrom(_, _, _, _)
TimeWhileFrom(evs, i, q, P) ==
    IF i > Len(evs) THEN 0
    ELSE (IF evs[i].player_id = q /\ P \in Range(evs[i].lineup) THEN evs[i].time ELSE 0)
         + TimeWhileFrom(evs, i + 1, q, P)

TimeWhile(q, P) == TimeWhileFrom(team_cache.events, 1, q, P)

\* C3: a player named in off is not among the result players (nor in the
\* comparison), and with a player P named in on no result player is
\* credited more minutes than the events whose lineup contains P hold for
\* that player.
C3_OffExcludedOnCredited ==
    q_ret = "result" =>
        /\ \A P \in off_ids :
              /\ \A i \in 1 .. Len(players) : players[i].id # P
              /\ \A i \in 1 .. Len(comparison) : comparison[i].id # P
        /\ \A P \in on_ids : \A i \in 1 .. Len(players) :
              players[i].min <= RoundDiv(TimeWhile(players[i].id, P) * 10, 60)

C3_Witness ==
    /\ q_ret = "result"
    /\ Cardinality(on_ids) = 1
    /\ Cardinality(off_ids) = 1
    /\ players # <<>>
    /\ \E P \in off_ids : \E k \in 1 .. Len(team_cache.roster) :
          team_cache.roster[k].id = P /\ TimeWhile(P, P) > 0
    /\ \E P \in on_ids : \E i \in 1 .. Len(players) :
          TimeWhile(players[i].id, players[i].id) > TimeWhile(players[i].id, P)

\* a name of the list that get_player_id finds no roster player for
Unresolved(names) ==
    \E i \in 1 .. Len(names) : get_player_id(names[i], team_cache.roster) = NoPerson

\* C7: a query with a name that resolves to no roster player is rejected:
\* it never returns a normal result.
C7_UnresolvedNameRejected ==
    (Unresolved(q_on) \/ Unresolved(q_off)) => q_ret # "result"

(***************************************************************************)
(* Claims about calculate_usg (SpecUsg).                                   *)
(***************************************************************************)
\* team_FGA + 0.44 * team_FTA + team_TOV of the latest call is 0
TeamDenominatorZero == 100 * u_args[4] + 44 * u_args[5] + 100 * u_args[6] = 0

\* C11: whenever the team-possession denominator is 0, calculate_usg
\* returns 0, whatever the player's attempts are; it never fails.
C11_ZeroDenominatorGivesZero ==
    TeamDenominatorZero => (u_ret = 0 /\ u_script = 0)

C11_Witness ==
    /\ TeamDenominatorZero
    /\ u_args[1] > 0 /\ u_args[2] > 0 /\ u_args[3] > 0
    /\ u_ret = 0

(***************************************************************************)
(* More claims about query_stats (SpecQuery).                              *)
(***************************************************************************)
\* C12: a query whose on and off sets share a player returns no players
\* and no comparison entries.
C12_OverlapGivesEmptyResult ==
    (q_ret = "result" /\ on_ids \cap off_ids # {}) =>
        (players = <<>> /\ comparison = <<>>)

C12_Witness ==
    /\ q_ret = "result"
    /\ \E P \in on_ids \cap off_ids : TimeWhile(P, P) >= MinMinutes * 60
    /\ on_ids # off_ids
    /\ players = <<>>

(***************************************************************************)
(* Claims about the comparison list (SpecCompare).                         *)
(***************************************************************************)
Ids(stats) == {stats[i].id : i \in 1 .. Len(stats)}

RecordOf(stats, p) == stats[CHOOSE i \in 1 .. Len(stats) : stats[i].id = p]

\* the players the comparison is about: not off, in both results
SharedIds == (Ids(c_main) \cap Ids(c_base)) \ c_off

\* each entry is a shared player's, primary minus baseline
EntriesAreDeltas ==
    \A i \in 1 .. Len(c_out) :
        LET e == c_out[i]
            m == RecordOf(c_main, e.id)
            b == RecordOf(c_base, e.id)
        IN /\ e.id \in SharedIds
           /\ e.min_with = b.min
           /\ e.usg_diff = m.usg - b.usg
           /\ e.pts_diff = m.pts - b.pts
           /\ e.reb_diff = m.reb - b.reb
           /\ e.ast_diff = m.ast - b.ast
           /\ e.fga_diff = m.fga - b.fga
           /\ e.fg3a_diff = m.fg3a - b.fg3a
           /\ e.pra_diff = m.pra - b.pra

\* C13 (as stated): the comparison is non-empty only with a non-empty off
\* filter, and it has an entry for p if and only if p is not in off and is
\* in both the primary and the baseline result; each delta is primary
\* minus baseline.
C13_EntryIffInBoth ==
    /\ (c_off = {} => c_out = <<>>)
    /\ (c_off # {} => Ids(c_out) = SharedIds)
    /\ EntriesAreDeltas

\* C13 (amended): the comparison is non-empty only with a non-empty off
\* filter; every entry is of a player not in off that is in both results,
\* with deltas primary minus baseline; no player has two entries; when at
\* most ComparisonTop players qualify each of them has an entry, and when
\* more qualify the entries are ComparisonTop of them, none with fewer
\* baseline minutes than a qualifying player left out.
C13_EntriesAreTopShared ==
    /\ (c_off = {} => c_out = <<>>)
    /\ EntriesAreDeltas
    /\ Cardinality(Ids(c_out)) = Len(c_out)
    /\ c_off # {} =>
          /\ Len(c_out) = (IF Cardinality(SharedIds) < ComparisonTop
                            THEN Cardinality(SharedIds) ELSE ComparisonTop)
          /\ \A p \in SharedIds \ Ids(c_out) : \A i \in 1 .. Len(c_out) :
                 RecordOf(c_base, p).min <= c_out[i].min_with

C13_Witness ==
    /\ c_off # {}
    /\ Cardinality(SharedIds) > ComparisonTop
    /\ Len(c_out) = ComparisonTop
    /\ Ids(c_main) \ Ids(c_base) # {}
    /\ \E i \in 1 .. Len(c_out) : c_out[i].reb_diff < 0 /\ c_out[i].usg_diff > 0

(***************************************************************************)
(* More claims about build_cache / update_cache (SpecCache).               *)
(***************************************************************************)
\* an update run hands a game to process_game_raw
C14_ProcessesOnlyNewGames ==
    (op = "update" /\ wpc = "loop" /\ Len(attempts') = Len(attempts) + 1) =>
        attempts'[Len(attempts')].gid \notin ExistingGameIds(file_at_start.events)

\* an update run completes its write
C14_AppendsToStoredEvents ==
    (op = "update" /\ wpc = "dump" /\ outcome' = "written") =>
        LET old == file_at_start.events
            new == file'.events
        IN /\ Len(new) = Len(old) + Len(acc)
           /\ SubSeq(new, 1, Len(old)) = old
           /\ SubSeq(new, Len(old) + 1, Len(new)) = acc
           /\ \A i \in 1 .. Len(acc) :
                 /\ acc[i].game_id \notin ExistingGameIds(old)
                 /\ \E k \in 1 .. Len(attempts) : attempts[k].gid = acc[i].game_id

\* C14: update_cache processes only games whose game_id is not among the
\* stored events, and what it writes is the stored events, unchanged and in
\* their order, followed by the events of the games it processed.
C14_UpdateOnlyAppends == [][C14_ProcessesOnlyNewGames /\ C14_AppendsToStoredEvents]_vars

C14_Witness ==
    /\ op = "update"
    /\ RunEnded
    /\ outcome = "written"
    /\ file_at_start.events # <<>>
    /\ Len(file.events) > Len(file_at_start.events)
    /\ Len(all_game_ids) > 1

\* the floor time the events from the i-th on hold for player q
RECURSIVE FloorTimeFrom(_, _, _)
FloorTimeFrom(evs, i, q) ==
    IF i > Len(evs) THEN 0
    ELSE (IF evs[i].player_id = q THEN evs[i].time ELSE 0) + FloorTimeFrom(evs, i + 1, q)

FloorTime(q) == FloorTimeFrom(file.events, 1, q)

\* the roster of snapshot snap holds exactly the players with positive
\* cumulative floor time in snap's events, each once, in descending order
\* of that time
RosterRebuilt(snap) ==
    LET Time(q) == FloorTimeFrom(snap.events, 1, q)
    IN /\ {snap.roster[i].id : i \in 1 .. Len(snap.roster)} =
             {q \in Players : Time(q) > 0}
       /\ \A i, j \in 1 .. Len(snap.roster) :
             i < j => /\ snap.roster[i].id # snap.roster[j].id
                      /\ Time(snap.roster[i].id) >= Time(snap.roster[j].id)

\* C15, the Minnesota script: the roster of a written snapshot holds exactly
\* the players with positive cumulative floor time in the snapshot's events,
\* each once, in descending order of that time.
C15_RosterIsPlayersWithTime ==
    (file.exists /\ file.complete) => RosterRebuilt(file)

\* C15, the Phoenix script: the roster of a snapshot its build_cache or
\* update_cache wrote holds exactly the players with positive cumulative
\* floor time in the snapshot's events, in descending order of that time.
C15_PhoenixRosterIsPlayersWithTime ==
    px_file.exists => RosterRebuilt(px_file)

C15_Witness ==
    /\ file.exists /\ file.complete
    /\ op = "update" /\ outcome = "written"
    /\ Len(file.roster) > Len(file_at_start.roster)
    /\ file_at_start.roster # <<>>
    /\ file.roster[1].id # file_at_start.roster[1].id
    /\ \E i \in 1 .. Len(file.events) :
          FloorTime(file.events[i].player_id) = 0

\* ---- the one-period scenario
ScenarioPre == 1 .. LineupSize

ScenarioPost == (ScenarioPre \ {scenario.out}) \cup {6}

ScenarioEvents == team_cache.events

TimeOnly == {i \in 1 .. Len(ScenarioEvents) : ScenarioEvents[i].stats = NoStats}

Statistic == {i \in 1 .. Len(ScenarioEvents) : ScenarioEvents[i].stats # NoStats}

\* the time-only events tagged with lineup L
TimeGroup(L) == {i \in TimeOnly : Range(ScenarioEvents[i].lineup) = L}

\* the group tagged with L is one event of d seconds for each player of L
GroupOfFive(L, d) ==
    /\ Cardinality(TimeGroup(L)) = LineupSize
    /\ {ScenarioEvents[i].player_id : i \in TimeGroup(L)} = L
    /\ \A i \in TimeGroup(L) : ScenarioEvents[i].time = d

MadeThree == Stats([FGM |-> 1, FGA |-> 1, FG3M |-> 1, FG3A |-> 1, PTS |-> 3])

\* exactly one statistic event: the made three of player 6
OneMadeThree ==
    /\ Cardinality(Statistic) = 1
    /\ \A i \in Statistic :
          /\ ScenarioEvents[i].player_id = 6
          /\ ScenarioEvents[i].stats = MadeThree
          /\ ScenarioEvents[i].time = 0
          /\ Range(ScenarioEvents[i].lineup) = ScenarioPost

QueriedOn == q_ret = "result" /\ on_ids = {6} /\ off_ids = {}

QueriedOff == q_ret = "result" /\ on_ids = {} /\ off_ids = {6}

PlayerIds == {players[i].id : i \in 1 .. Len(players)}

\* C16 as stated: with the substitution at the midpoint the log holds two
\* groups of five time-only events, one per lineup, and one statistic event
\* (the made three); on = {6} reports non-zero per-36 points for player 6,
\* off = {6} returns the four remaining teammates without player 6.
C16_ScenarioAsStated ==
    scenario.sub = Midpoint =>
        /\ \E d \in 1 .. RegPeriodLen : GroupOfFive(ScenarioPre, d)
        /\ \E d \in 1 .. RegPeriodLen : GroupOfFive(ScenarioPost, d)
        /\ Cardinality(TimeOnly) = 2 * LineupSize
        /\ OneMadeThree
        /\ QueriedOn => \E i \in 1 .. Len(players) :
                            players[i].id = 6 /\ players[i].pts # 0
        /\ QueriedOff => PlayerIds = ScenarioPost \ {6}

\* C16, amended: a stretch of more than MaxDelta seconds credits nobody,
\* so a lineup has its group of five time-only events only when the action
\* ending its stretch is at most MaxDelta seconds after the previous clock
\* (never the pre-substitution lineup when the substitution is at the
\* midpoint); the one statistic event is the made three; the filters pick
\* player 6's own time and points for on = {6} and nothing of player 6 for
\* off = {6}, and both queries return no rows, nobody having MinMinutes
\* minutes.
C16_ScenarioUnderTheCap ==
    scenario # NoScenario =>
        LET before == RegPeriodLen - scenario.sub * 60
            after == scenario.gap * 60
        IN /\ IF before <= MaxDelta THEN GroupOfFive(ScenarioPre, before)
                                    ELSE TimeGroup(ScenarioPre) = {}
           /\ IF after <= MaxDelta THEN GroupOfFive(ScenarioPost, after)
                                   ELSE TimeGroup(ScenarioPost) = {}
           /\ TimeOnly = TimeGroup(ScenarioPre) \cup TimeGroup(ScenarioPost)
           /\ OneMadeThree
           /\ QueriedOn => /\ agg.time[6] = after
                           /\ agg.stats[6]["PTS"] = 3
                           /\ players = <<>>
           /\ QueriedOff => /\ agg.time[6] = 0
                            /\ agg.stats[6] = NoStats
                            /\ \A q \in ScenarioPost \ {6} :
                                  agg.time[q] = IF before <= MaxDelta THEN before ELSE 0
                            /\ players = <<>>

C16_Witness ==
    /\ scenario.sub = Midpoint
    /\ scenario.gap * 60 <= MaxDelta
    /\ QueriedOn
    /\ agg.time[6] > 0

C16_WitnessOff ==
    /\ scenario.sub = Midpoint
    /\ QueriedOff

\* C17: once current_lineup has exactly five members in the loop of
\* process_game_raw, it has exactly five members after every later action.
C17_FiveStaysFive ==
    [][(gpc = "loop" /\ Cardinality(current_lineup) = LineupSize)
          => Cardinality(current_lineup') = LineupSize]_vars

\* the latest action was an own-team substitution 'in' that took the
\* lineup above five members
ClampApplied ==
    /\ last_action.kind = "substitution"
    /\ last_action.sub = "in"
    /\ last_action.team = TeamId
    /\ last_action.person # NoPerson
    /\ Cardinality(last_before \cup {last_action.person}) > LineupSize

\* C18: when a substitution 'in' takes the lineup above five members, the
\* lineup afterwards has exactly five members and contains the player just
\* substituted in (the member dropped being the one added earliest, which
\* is never that player).
C18_ClampKeepsNewest ==
    ClampApplied =>
        /\ Cardinality(current_lineup) = LineupSize
        /\ last_action.person \in current_lineup

\* C19: an action with elapsed time d > 0 adds exactly five time-only
\* events, one per player of the lineup in effect before the action, each
\* with time d, no statistic, is_team_stat false and that lineup as its
\* snapshot; an action with d = 0 adds no time-only event.
C19_FiveTimeEventsPerAction ==
    [][gpc = "loop" =>
          LET added == SubSeq(events', Len(events) + 1, Len(events'))
              T == {i \in 1 .. Len(added) : added[i].stats = NoStats}
          IN IF last_delta' > 0
             THEN /\ Cardinality(T) = LineupSize
                  /\ {added[i].player_id : i \in T} = current_lineup
                  /\ \A i \in T : /\ added[i].time = last_delta'
                                   /\ added[i].lineup = current_lineup
                                   /\ ~added[i].is_team_stat
             ELSE T = {}]_vars

\* the running clock the delta of action a is taken from
RunningClock(a) ==
    IF a.period # prev_period
    THEN IF a.period <= LastRegPeriod THEN RegPeriodLen ELSE OtPeriodLen
    ELSE prev_clock

\* C20: the elapsed time of an action with a readable clock is the running
\* clock minus the action's clock, the running clock being reset to 720 on
\* entering a period 1-4 and to 300 on entering an overtime period first; a
\* delta below 0 or above 120 is replaced by 0; the time-only events of the
\* action carry that time, and every event's time lies in [0, 120].
C20_ElapsedIsCappedClockDelta ==
    /\ [][(gpc = "loop" /\ parse_clock(last_action'.clock) # NoClock) =>
             LET raw == RunningClock(last_action') - parse_clock(last_action'.clock)
                 d == IF raw < 0 \/ raw > MaxDelta THEN 0 ELSE raw
                 added == SubSeq(events', Len(events) + 1, Len(events'))
                 T == {i \in 1 .. Len(added) : added[i].stats = NoStats}
             IN /\ last_delta' = d
                /\ d > 0 => T # {}
                /\ d = 0 => T = {}
                /\ \A i \in T : added[i].time = d]_vars
    /\ [](\A i \in 1 .. Len(events) : events[i].time \in 0 .. MaxDelta)

\* the latest action entered overtime and its players were credited the
\* time from the 300 s of the overtime clock
C20_Witness ==
    /\ last_action.period > LastRegPeriod
    /\ parse_clock(last_action.clock) # NoClock
    /\ last_delta = OtPeriodLen - parse_clock(last_action.clock)
    /\ last_delta > 0
    /\ \E i \in 1 .. Len(events) : events[i].time = last_delta

\* the events the step appends to the log
AddedEvents == SubSeq(events', Len(events) + 1, Len(events'))

\* C21: a substitution action adds no statistic event; for the processed
\* team and with a player identifier it changes current_lineup only by
\* adding the player on 'in' or removing the player on 'out' (a lineup left
\* with more than five members being cut back to five of them); for the
\* other team, or without a player identifier, it leaves current_lineup
\* unchanged.
C21_SubstitutionOnlyMovesLineup ==
    [][(gpc = "loop" /\ last_action'.kind = "substitution") =>
          LET a == last_action'
              applied == CASE a.sub = "in" -> current_lineup \cup {a.person}
                           [] a.sub = "out" -> current_lineup \ {a.person}
                           [] OTHER -> current_lineup
          IN /\ \A i \in 1 .. Len(AddedEvents) :
                   AddedEvents[i].stats = NoStats /\ AddedEvents[i].time > 0
             /\ IF a.team = TeamId /\ a.person # NoPerson
                THEN IF Cardinality(applied) <= LineupSize
                     THEN current_lineup' = applied
                     ELSE /\ current_lineup' \subseteq applied
                          /\ Cardinality(current_lineup') = LineupSize
                ELSE current_lineup' = current_lineup]_vars

\* a substitution of the other team was processed after one of the
\* processed team had changed the lineup
C21_Witness ==
    /\ last_action.kind = "substitution"
    /\ last_action.team = OppId
    /\ last_action.person # NoPerson
    /\ last_action.person \notin current_lineup
    /\ current_lineup = last_before
    /\ 6 \in current_lineup
    /\ 1 \notin current_lineup

\* C22: for an action that is no substitution, a statistic event of the
\* acting player is added only if that player is in current_lineup, an
\* assist event only if the assisting player is in current_lineup; each
\* has time 0 and current_lineup as its snapshot; at most one event of
\* either sort is added.
C22_StatisticsOnlyForLineupMembers ==
    [][(gpc = "loop" /\ last_action'.kind # "substitution") =>
          LET a == last_action'
              S == {i \in 1 .. Len(AddedEvents) : AddedEvents[i].stats # NoStats}
              Assists == {i \in S : AddedEvents[i].stats["AST"] > 0}
              Own == S \ Assists
          IN /\ Cardinality(Own) <= 1
             /\ Cardinality(Assists) <= 1
             /\ \A i \in Own : /\ AddedEvents[i].player_id = a.person
                                /\ a.person \in current_lineup
             /\ \A i \in Assists : /\ AddedEvents[i].player_id = a.assist
                                    /\ a.assist \in current_lineup
             /\ \A i \in S : /\ AddedEvents[i].time = 0
                              /\ AddedEvents[i].lineup = current_lineup
                              /\ AddedEvents[i].lineup = current_lineup'
             /\ \A i \in 1 .. Len(AddedEvents) :
                   i \notin S => AddedEvents[i].time > 0]_vars

\* a made shot by a player who is not on the floor, assisted by one who
\* is: the log ends with the assist, and holds nothing for the shooter
C22_Witness ==
    /\ last_action.kind = "3pt"
    /\ last_action.made
    /\ last_action.person \notin current_lineup
    /\ last_action.assist \in current_lineup
    /\ events # <<>>
    /\ events[Len(events)].player_id = last_action.assist
    /\ events[Len(events)].stats["AST"] = 1
    /\ \A i \in 1 .. Len(events) : events[i].player_id # last_action.person

\* the place of player pid in the snapshot's roster
RosterPlace(pid) ==
    CHOOSE i \in 1 .. Len(team_cache.roster) : team_cache.roster[i].id = pid

\* C23: the player list of a query is in descending order of accumulated
\* floor time, players with equal floor time in the order of the snapshot's
\* roster; no player with less floor time precedes one with more.
C23_OrderedByFloorTime ==
    q_ret = "result" =>
        \A i, j \in 1 .. Len(players) :
           i < j =>
              /\ agg.time[players[i].id] >= agg.time[players[j].id]
              /\ agg.time[players[i].id] = agg.time[players[j].id]
                    => RosterPlace(players[i].id) < RosterPlace(players[j].id)

\* C24: every event of process_game_raw, time-only or statistic, has its
\* player_id among the members of its own lineup snapshot.
C24_PlayerInOwnLineup ==
    \A i \in 1 .. Len(events) : events[i].player_id \in events[i].lineup

\* the log holds a time-only event and a statistic event taken under
\* different lineups
C24_Witness ==
    \E i, j \in 1 .. Len(events) :
       /\ events[i].stats = NoStats
       /\ events[j].stats # NoStats
       /\ events[i].lineup # events[j].lineup
       /\ events[j].player_id \notin events[i].lineup

\* the events of game g in the written file, in their order
FileEventsOf(g) ==
    LET OfGame(ev) == ev.game_id = g
    IN SelectSeq(file.events, OfGame)

\* C25: the games_processed of a written snapshot is the number of distinct
\* game_id values among its events, and the events of each game are those
\* of one processing of that game, in one block.
C25_GamesProcessedCountsGames ==
    (file.exists /\ file.complete) =>
        /\ file.games_processed = Cardinality(ExistingGameIds(file.events))
        /\ \A g \in ExistingGameIds(file.events) :
              \E res \in GameResults(g) : FileEventsOf(g) = Tagged(res.events, g)
        /\ \A i, k \in 1 .. Len(file.events) :
              file.events[i].game_id = file.events[k].game_id =>
                 \A j \in i .. k : file.events[j].game_id = file.events[i].game_id

\* an update has added a second game to a snapshot of one game
C25_Witness ==
    /\ file.exists /\ file.complete
    /\ op = "update" /\ outcome = "written"
    /\ file_at_start.games_processed = 1
    /\ file.games_processed = 2
    /\ Len(file.events) > Len(file_at_start.events)

\* the games attempted so far by the run under way
Attempted == {attempts[i].gid : i \in 1 .. Len(attempts)}

\* C26: an update run attempts exactly the scheduled games that have no
\* events in the snapshot it loaded (so a game skipped before is attempted
\* again by every update run that sees it in the schedule, and a game with
\* stored events never), each at most once and in schedule order; within
\* any run no game is attempted twice.
C26_SkippedGamesRetriedByLaterRuns ==
    /\ \A i, j \in 1 .. Len(attempts) : attempts[i].gid = attempts[j].gid => i = j
    /\ (op = "update" /\ wpc \in {"loop", "dump"}) =>
          /\ Range(game_ids) = Range(all_game_ids) \ ExistingGameIds(cache.events)
          /\ Len(attempts) = idx - 1
          /\ \A i \in 1 .. Len(attempts) : attempts[i].gid = game_ids[i]
          /\ Attempted \cap ExistingGameIds(cache.events) = {}
          /\ wpc = "dump" => Attempted = Range(game_ids)

\* the run before saw a game, wrote a snapshot and left the game without
\* events; this update attempts it again and not the game that has events
C26_Witness ==
    /\ op = "update" /\ wpc = "dump"
    /\ prev_run.outcome = "written"
    /\ \E g \in Range(prev_run.sched) :
          g \notin ExistingGameIds(cache.events) /\ g \in Attempted
    /\ \E g \in Range(all_game_ids) :
          g \in ExistingGameIds(cache.events) /\ g \notin Attempted

OwnSubstitution(a, sub) ==
    a.kind = "substitution" /\ a.sub = sub /\ a.team = TeamId /\ a.person # NoPerson

\* C27: from a lineup L of five, player X (not in L) in for player Y (in
\* L), as two consecutive substitutions of the processed team in either
\* order, leaves current_lineup = (L minus {Y}) plus {X}.
C27_PairedSubstitutionEitherOrder ==
    [][(gpc = "loop" /\ Cardinality(last_before) = LineupSize) =>
          /\ (/\ OwnSubstitution(last_action, "out") /\ OwnSubstitution(last_action', "in")
              /\ last_action.person \in last_before
              /\ last_action'.person \notin last_before)
                => current_lineup' = (last_before \ {last_action.person})
                                        \cup {last_action'.person}
          /\ (/\ OwnSubstitution(last_action, "in") /\ OwnSubstitution(last_action', "out")
              /\ last_action.person \notin last_before
              /\ last_action'.person \in last_before)
                => current_lineup' = (last_before \ {last_action'.person})
                                        \cup {last_action.person}]_vars

\* C28: the elapsed time credited within one period never exceeds the
\* period's length, 720 seconds for periods 1-4 and 300 seconds for an
\* overtime period, whatever the order of the clock values.
C28_CreditWithinPeriodLength ==
    \A p \in DOMAIN credited :
       credited[p] <= IF p <= LastRegPeriod THEN RegPeriodLen ELSE OtPeriodLen

\* FGA + 0.44 * FTA + TOV, in hundredths
Possessions(st) == 100 * st["FGA"] + 44 * st["FTA"] + 100 * st["TOV"]

\* C29: under every on/off filter the possessions a player used over the
\* included events do not exceed the team possessions attributed to that
\* player over the same events, and the usage rate of every result player
\* lies between 0 and 100 (usg is kept in tenths).
C29_UsageBetween0And100 ==
    q_ret = "result" =>
        /\ \A p \in Players : Possessions(agg.stats[p]) <= Possessions(agg.team[p])
        /\ \A i \in 1 .. Len(players) : players[i].usg \in 0 .. 1000

\* a filtered query returned a player who used some, but not all, of the
\* team's possessions, and one who used none
C29_Witness ==
    /\ q_ret = "result"
    /\ on_ids # {}
    /\ \E i, j \in 1 .. Len(players) :
          /\ players[i].usg > 0 /\ players[i].usg < 1000
          /\ players[j].usg = 0
          /\ Possessions(agg.team[players[j].id]) > 0

\* C30: once load_team_cache has loaded a snapshot, _team_cache keeps it
\* and every later call returns it from memory, whatever the file has
\* become; a call that finds no file stores nothing, and a call that finds
\* a complete file with nothing in memory loads and stores it.
C30_LoadedOnceServedFromMemory ==
    [][/\ team_cache # NoFile => team_cache' = team_cache
       /\ served' # served =>
             IF team_cache # NoFile
             THEN served' = [kind |-> "memory", data |-> team_cache]
             ELSE IF ~file.exists
             THEN served'.kind = "missing" /\ team_cache' = NoFile
             ELSE file.complete =>
                     /\ served' = [kind |-> "loaded", data |-> file]
                     /\ team_cache' = file]_vars

\* a call was answered from memory with a snapshot that is no longer the
\* one in the file
C30_Witness ==
    /\ served.kind = "memory"
    /\ served.data = team_cache
    /\ file.exists /\ file.complete
    /\ file # team_cache
    /\ Len(file.events) > Len(team_cache.events)

====
